---- MODULE Spec2Model ----
(***************************************************************************)
(* Decision/state layer of the combat AI: the behaviour-tree engine        *)
(* (BehaviorTree.ts), the combat entity AICharacter (AICharacter.ts) and    *)
(* its variants Grunt, Soldier and the boss BossBase/Trainer.               *)
(*                                                                         *)
(* Units.  Health and armor are counted in half points (Scale units per    *)
(* point), so that the 50% armor absorption of a whole-point hit stays an  *)
(* integer.  Distances are tenths of a world unit, times frames of 1/60 s, *)
(* angles degrees, the wall clock milliseconds; speeds, multipliers and   *)
(* the damage stat are exact fractions.  Positions are relative to the     *)
(* entity, which has no mesh attached and so stays where it was            *)
(* constructed.                                                            *)
(***************************************************************************)
EXTENDS Integers, Sequences, FiniteSets, TLC

VARIABLES
    e,          \* the combat entity under test (all AICharacter fields)
    target,     \* the position of the target object as the entity last read it
    obs,        \* the caller's watch on the last stun
    bt,         \* a behaviour tree under test with call-counting stub leaves
    now         \* what Date.now() returns, milliseconds

vars == <<e, target, obs, bt, now>>

\* ------------------------------------------------------------------------
\* BehaviorTree.ts : node statuses and node kinds
\* ------------------------------------------------------------------------
RUNNING == "running"
SUCCESS == "success"
FAILURE == "failure"
NodeStatus == {RUNNING, SUCCESS, FAILURE}

INVERTER == "inverter"
REPEATER == "repeater"
TIMEOUT == "timeout"
SUCCESS_RATE == "success"
FAILURE_RATE == "failure"
DecoratorType == {INVERTER, REPEATER, TIMEOUT, SUCCESS_RATE, FAILURE_RATE}

\* Node constructors.  A leaf is named; what a leaf returns when executed is
\* looked up in the evaluation context (a function from leaf names to a
\* status for an action, to a BOOLEAN for a condition).
BTAction(name) == [type |-> "action", name |-> name]
BTCondition(name) == [type |-> "condition", name |-> name]
BTSequence(name, children) == [type |-> "sequence", name |-> name, children |-> children]
BTSelector(name, children) == [type |-> "selector", name |-> name, children |-> children]
BTDecorator(name, decoratorType, child) ==
    [type |-> "decorator", name |-> name, decoratorType |-> decoratorType, child |-> child]

\* BTSequence.execute leaves its loop on these child results.
SequenceStopsOnFailureOnly(result) == result = FAILURE
SequenceStops(result) == result = FAILURE \/ result = RUNNING

\* BTSelector.execute leaves its loop on these child results.
SelectorStopsOnSuccessOnly(result) == result = SUCCESS
SelectorStops(result) == result = SUCCESS \/ result = RUNNING

\* BTDecorator.execute: the status reported for the child's result.
DecoratorResultSkewed(decoratorType, result) ==
    CASE decoratorType = INVERTER ->
            IF result = SUCCESS THEN FAILURE ELSE SUCCESS
      [] decoratorType = SUCCESS_RATE -> result
      [] decoratorType = FAILURE_RATE -> FAILURE
      [] OTHER -> result
DecoratorResult(decoratorType, result) ==
    CASE decoratorType = INVERTER ->
            IF result = SUCCESS THEN FAILURE
            ELSE IF result = FAILURE THEN SUCCESS
            ELSE result
      [] decoratorType = SUCCESS_RATE -> SUCCESS
      [] decoratorType = FAILURE_RATE -> FAILURE
      [] OTHER -> result

\* execute(context) of every node kind.  The value is the status returned and
\* the trace: the leaves whose function was called, in call order.
RECURSIVE Execute(_, _)
RECURSIVE SequenceLoop(_, _, _, _)
RECURSIVE SelectorLoop(_, _, _, _)

SequenceLoop(children, i, ctx, trace) ==
    IF i > Len(children)
    THEN [status |-> SUCCESS, trace |-> trace]
    ELSE LET r == Execute(children[i], ctx)
         IN  IF SequenceStops(r.status)
             THEN [status |-> r.status, trace |-> trace \o r.trace]
             ELSE SequenceLoop(children, i + 1, ctx, trace \o r.trace)

SelectorLoop(children, i, ctx, trace) ==
    IF i > Len(children)
    THEN [status |-> FAILURE, trace |-> trace]
    ELSE LET r == Execute(children[i], ctx)
         IN  IF SelectorStops(r.status)
             THEN [status |-> r.status, trace |-> trace \o r.trace]
             ELSE SelectorLoop(children, i + 1, ctx, trace \o r.trace)

Execute(node, ctx) ==
    CASE node.type = "action" ->
            [status |-> ctx[node.name], trace |-> <<node.name>>]
      [] node.type = "condition" ->
            [status |-> IF ctx[node.name] THEN SUCCESS ELSE FAILURE,
             trace |-> <<node.name>>]
      [] node.type = "sequence" -> SequenceLoop(node.children, 1, ctx, <<>>)
      [] node.type = "selector" -> SelectorLoop(node.children, 1, ctx, <<>>)
      [] node.type = "decorator" ->
            LET r == Execute(node.child, ctx)
            IN  [status |-> DecoratorResult(node.decoratorType, r.status),
                 trace |-> r.trace]

\* ------------------------------------------------------------------------
\* A behaviour tree under test: the root is one composite or decorator over
\* call-counting stub actions, as a unit test of the engine would build it.
\* ------------------------------------------------------------------------
MaxChildren == 3

StubName(i) == <<"stub", i>>
Stubs(n) == [i \in 1..n |-> BTAction(StubName(i))]
StubNames == {StubName(i) : i \in 1..MaxChildren}

TestRoots ==
    {BTSequence("seq", Stubs(n)) : n \in 0..MaxChildren}
    \cup {BTSelector("sel", Stubs(n)) : n \in 0..MaxChildren}
    \cup {BTDecorator("dec", d, BTAction(StubName(1))) : d \in DecoratorType}

\* new BehaviorTree(root, initialContext): context.isAlive defaults to true,
\* lastStatus to SUCCESS.  Of the last call, returned is what update
\* returned ("none" when the call was no update), ran whether it executed
\* the root, calls the stubs' call log, stubs what each stub was set to
\* return.
BTInitFor(root) ==
    [root |-> root,
     isAlive |-> TRUE,
     stubs |-> [n \in StubNames |-> SUCCESS],
     lastStatus |-> SUCCESS,
     returned |-> "none",
     ran |-> FALSE,
     calls |-> <<>>]

\* BehaviorTree.update(deltaTime)
BehaviorTreeUpdate(t) ==
    IF ~t.isAlive
    THEN [t EXCEPT !.returned = FAILURE, !.ran = FALSE, !.calls = <<>>]
    ELSE LET r == Execute(t.root, t.stubs)
         IN  [t EXCEPT !.lastStatus = r.status, !.returned = r.status,
                       !.ran = TRUE, !.calls = r.trace]

\* BehaviorTree.reset(); reset of a leaf does nothing.
BehaviorTreeReset(t) ==
    [t EXCEPT !.lastStatus = SUCCESS, !.returned = "none", !.ran = FALSE, !.calls = <<>>]

\* BehaviorTree.setContext({isAlive})
BehaviorTreeSetContext(t, isAlive) ==
    [t EXCEPT !.isAlive = isAlive, !.returned = "none", !.ran = FALSE, !.calls = <<>>]

\* ------------------------------------------------------------------------
\* Numbers.  A stat of p points is Pt(p) half points; a speed, a multiplier
\* or a damage value that phase and enrage multipliers rescale is an exact
\* fraction <<numerator, denominator>> in lowest terms.
\* ------------------------------------------------------------------------
Scale == 2
Pt(p) == p * Scale
Half(amount) == amount \div 2
Min(a, b) == IF a <= b THEN a ELSE b

RECURSIVE GCD(_, _)
GCD(a, b) == IF b = 0 THEN a ELSE GCD(b, a % b)
Rat(n, d) == LET g == GCD(IF n < 0 THEN -n ELSE n, d)
             IN  IF n = 0 THEN <<0, 1>> ELSE <<n \div g, d \div g>>
RMul(a, b) == Rat(a[1] * b[1], a[2] * b[2])
RDiv(a, b) == Rat(a[1] * b[2], a[2] * b[1])
ZeroVector == Rat(0, 1)

\* 1/60 s is the time unit (the fixed step AICharacter passes to moveToward
\* and subtracts from patrolWaitTime); Sec(t) is t tenths of a second.
FramesPerSecond == 60
Sec(tenths) == (tenths * FramesPerSecond) \div 10

Infinity == 1000000
NULL == "null"

\* ------------------------------------------------------------------------
\* AICharacter.ts : enumerations and configuration bundles
\* ------------------------------------------------------------------------
GRUNT == "grunt"
SOLDIER == "soldier"
HEAVY == "heavy"
BOSS == "boss"

IDLE == "idle"
PATROL == "patrol"
CHASE == "chase"
ATTACK == "attack"
RETREAT == "retreat"
COVER == "cover"
DEAD == "dead"
STUNNED == "stunned"
AIState == {IDLE, PATROL, CHASE, ATTACK, RETREAT, COVER, DEAD, STUNNED}

\* A position is given relative to the entity's own position, in the
\* horizontal plane: its distance (tenths of a unit) and its bearing (the
\* angle atan2(dx, dz) of the direction to it, degrees).
Pos(dist, bearing) == [dist |-> dist, bearing |-> bearing]

DEFAULT_MOVEMENT ==
    [walkSpeed |-> Rat(20, 10), runSpeed |-> Rat(40, 10), patrolSpeed |-> Rat(15, 10),
     minDistance |-> 50, maxDistance |-> 200, retreatDistance |-> 3]
DEFAULT_PERCEPTION == [viewAngle |-> 60, viewDistance |-> 400]

\* A plain AICharacter as a test builds it: 100 health, 20 armor, the
\* default movement and perception, no patrol route, no cover spots.
BASE_CONFIG ==
    [type |-> HEAVY, health |-> Pt(100), armor |-> Pt(20), damage |-> Rat(10, 1),
     movement |-> DEFAULT_MOVEMENT, perception |-> DEFAULT_PERCEPTION]

GRUNT_CONFIG ==
    [type |-> GRUNT, health |-> Pt(50), armor |-> 0, damage |-> Rat(10, 1),
     movement |-> [walkSpeed |-> Rat(30, 10), runSpeed |-> Rat(55, 10),
                   patrolSpeed |-> Rat(10, 10), minDistance |-> 15,
                   maxDistance |-> 250, retreatDistance |-> 1],
     perception |-> [viewAngle |-> 90, viewDistance |-> 300]]

SOLDIER_CONFIG ==
    [type |-> SOLDIER, health |-> Pt(120), armor |-> Pt(30), damage |-> Rat(20, 1),
     movement |-> [walkSpeed |-> Rat(25, 10), runSpeed |-> Rat(40, 10),
                   patrolSpeed |-> Rat(15, 10), minDistance |-> 80,
                   maxDistance |-> 300, retreatDistance |-> 4],
     perception |-> [viewAngle |-> 108, viewDistance |-> 500]]

\* Boss/Trainer.ts
TRAINER_PHASES ==
    << [name |-> "training", health |-> Pt(500),
        damageMultiplier |-> Rat(5, 10), speedMultiplier |-> Rat(7, 10)],
       [name |-> "combat", health |-> Pt(500),
        damageMultiplier |-> Rat(10, 10), speedMultiplier |-> Rat(10, 10)] >>

TRAINER_CONFIG ==
    [type |-> BOSS, health |-> Pt(1000), armor |-> Pt(50), damage |-> Rat(25, 1),
     movement |-> [walkSpeed |-> Rat(20, 10), runSpeed |-> Rat(45, 10),
                   patrolSpeed |-> Rat(15, 10), minDistance |-> 50,
                   maxDistance |-> 250, retreatDistance |-> 2],
     perception |-> [viewAngle |-> 126, viewDistance |-> 600],
     phases |-> TRAINER_PHASES,
     enrageThreshold |-> 2,
     enrageEffects |-> [damageMultiplier |-> Rat(15, 10), speedMultiplier |-> Rat(13, 10)]]

\* ------------------------------------------------------------------------
\* Construction
\* ------------------------------------------------------------------------
\* AICharacter constructor.  kind is the class constructed ("base", "grunt",
\* "soldier" or "boss").  Fields a subclass declares are present in every
\* entity with their declared initial value.  onDeathCalls and onDefeatCalls
\* count how often a registered on-death callback, respectively the boss's
\* events.onDefeat, has been invoked, and enterEnragedCalls, onEnrageCalls and
\* onPhaseChangeCalls how often Grunt.enterEnraged has run and the boss's
\* events.onEnrage and events.onPhaseChange have fired.  Of the last call
\* made on the entity, raised tells that it threw, treeUpdates how often it
\* called behaviorTree.update, bossAICalls how often executeBossAI, and
\* onSpecialAttackCalls how often it fired events.onSpecialAttack.
\* lastScratchTime is when the Grunt's last scratch was dealt (0: none yet)
\* and scratchGap how long after the scratch before it (0: it was the first).
\* resetCalls counts the calls of the boss's reset().
\* teachingTimer is kept from falling below 0, where the code only ever
\* compares it with 0.
\* lastKnownTargetPosition is relative to the entity like every position;
\* watched tells that the host reads it and lastSeenTime after its calls.
\* probed tells that the observers registered on the entity (on-damage,
\* on-death, on-state-change) read its health when they are called, and
\* healthRead holds what they read in the last call.
\* burstCount is the Soldier's count of rounds left in its burst, and
\* roundGap how long after the round before it the Soldier's last round was
\* fired (0: it was the first).
\* observers is the number of registered state-change observers, each of
\* which records its call in events; traced tells that the entity is of a
\* test subclass whose onExitState and onEnterState record their call in
\* events before calling the inherited hook.  events holds what the last
\* call on the entity recorded, in order.
AICharacter(kind, config, patrolPoints, coverSpots) ==
    [kind |-> kind,
     characterType |-> config.type,
     maxHealth |-> config.health,
     health |-> config.health,
     armor |-> config.armor,
     damage |-> config.damage,
     movementConfig |-> config.movement,
     perception |-> config.perception,
     hasLineOfSight |-> FALSE,
     distanceToTarget |-> Infinity,
     lastSeenTime |-> 0,
     lastKnownTargetPosition |-> Pos(0, 0),
     watched |-> FALSE,
     probed |-> FALSE,
     healthRead |-> {},
     state |-> IDLE,
     previousState |-> IDLE,
     isAlive |-> TRUE,
     isStunned |-> FALSE,
     stunTime |-> 0,
     velocity |-> ZeroVector,
     yaw |-> 0,
     target |-> NULL,
     patrolPoints |-> patrolPoints,
     currentPatrolIndex |-> 0,
     patrolWaitTime |-> 0,
     patrolDirection |-> 1,
     coverSpots |-> coverSpots,
     currentCoverSpot |-> 0,
     suppressTimer |-> 0,
     isEnraged |-> FALSE,
     phases |-> <<>>,
     phaseHealthThresholds |-> <<>>,
     currentPhaseIndex |-> 0,
     enrageThreshold |-> 0,
     enrageEffects |-> [damageMultiplier |-> Rat(1, 1), speedMultiplier |-> Rat(1, 1)],
     isPerformingSpecial |-> FALSE,
     currentSpecialAttack |-> NULL,
     specialAttackCooldown |-> 0,
     animationTimer |-> 0,
     lastAttackTime |-> 0,
     screechCooldown |-> 0,
     lastScratchTime |-> 0,
     scratchGap |-> 0,
     burstCount |-> 0,
     resetCalls |-> 0,
     demonstrationComplete |-> FALSE,
     currentTipIndex |-> 0,
     teachingTimer |-> 0,
     comboCount |-> 0,
     comboWindow |-> 0,
     roundGap |-> 0,
     observers |-> 0,
     traced |-> FALSE,
     events |-> <<>>,
     raised |-> FALSE,
     treeUpdates |-> 0,
     bossAICalls |-> 0,
     onSpecialAttackCalls |-> 0,
     enterEnragedCalls |-> 0,
     onEnrageCalls |-> 0,
     onPhaseChangeCalls |-> 0,
     onDeathCalls |-> 0,
     onDefeatCalls |-> 0]

Grunt == AICharacter("grunt", GRUNT_CONFIG, <<>>, <<>>)

Soldier(coverSpots) == AICharacter("soldier", SOLDIER_CONFIG, <<>>, coverSpots)

\* BossBase.calculatePhaseThresholds: 1 - accumulated/total per phase.
RECURSIVE SumHealth(_, _)
SumHealth(phases, n) == IF n = 0 THEN 0 ELSE SumHealth(phases, n - 1) + phases[n].health
CalculatePhaseThresholdsSpent(phases) ==
    LET totalHealth == SumHealth(phases, Len(phases))
    IN  [i \in 1..Len(phases) |-> Rat(SumHealth(phases, i), totalHealth)]
CalculatePhaseThresholds(phases) ==
    LET totalHealth == SumHealth(phases, Len(phases))
    IN  [i \in 1..Len(phases) |->
            Rat(totalHealth - SumHealth(phases, i), totalHealth)]

\* BossBase constructor: the base class is initialised with the first
\* phase's health and multiplied damage.
BossBase(config) ==
    LET initialPhase == config.phases[1]
        initialConfig == [config EXCEPT
                            !.health = initialPhase.health,
                            !.damage = RMul(config.damage, initialPhase.damageMultiplier)]
        base == AICharacter("boss", initialConfig, <<>>, <<>>)
    IN  [base EXCEPT
            !.characterType = BOSS,
            !.phases = config.phases,
            !.phaseHealthThresholds = CalculatePhaseThresholds(config.phases),
            !.enrageThreshold = config.enrageThreshold,
            !.enrageEffects = config.enrageEffects]

Trainer == BossBase(TRAINER_CONFIG)

\* ------------------------------------------------------------------------
\* AICharacter : state management
\* ------------------------------------------------------------------------
\* What a traced entity's hook override records.
Traced(x, event) == IF x.traced THEN [x EXCEPT !.events = Append(@, event)] ELSE x

OnEnterState(x, state) ==
    LET t == Traced(x, <<"onEnterState", state>>)
    IN  IF state = PATROL THEN [t EXCEPT !.velocity = ZeroVector] ELSE t

OnExitState(x, state) ==
    LET t == Traced(x, <<"onExitState", state>>)
    IN  IF state = COVER THEN [t EXCEPT !.currentCoverSpot = 0] ELSE t

\* What an observer of a probed entity does when it is called.
HealthRead(x) == IF x.probed THEN [x EXCEPT !.healthRead = @ \cup {x.health}] ELSE x

\* onStateChangeCallbacks.forEach(cb => cb(newState, oldState))
NotifyStateChange(x, newState, oldState) ==
    LET called == IF x.observers > 0 THEN HealthRead(x) ELSE x
    IN  [called EXCEPT !.events =
            @ \o [i \in 1..x.observers |-> <<"observer", i, newState, oldState>>]]

SetStateEnterFirst(x, newState) ==
    IF x.state = newState
    THEN x
    ELSE LET oldState == x.state
             moved == [x EXCEPT !.previousState = oldState, !.state = newState]
         IN  NotifyStateChange(OnExitState(OnEnterState(moved, newState), oldState),
                               newState, oldState)
SetState(x, newState) ==
    IF x.state = newState
    THEN x
    ELSE LET oldState == x.state
             moved == [x EXCEPT !.previousState = oldState, !.state = newState]
         IN  NotifyStateChange(OnEnterState(OnExitState(moved, oldState), newState),
                               newState, oldState)

Stop(x) == [x EXCEPT !.velocity = ZeroVector]

\* ------------------------------------------------------------------------
\* AICharacter : perception
\* ------------------------------------------------------------------------
\* Vector3.angleTo of the facing direction (0, 0, 1) turned by rotation.y and
\* the normalised direction to a position: the absolute angular difference;
\* for the zero vector (a position at distance 0) three.js yields PI / 2.
AngleTo(yaw, pos) ==
    IF pos.dist = 0
    THEN 90
    ELSE LET d == (pos.bearing - yaw) % 360
         IN  IF d > 180 THEN 360 - d ELSE d

CheckLineOfSightWidened(x, tgt) ==
    IF x.target = NULL THEN FALSE
    ELSE IF tgt.dist > x.perception.viewDistance THEN FALSE
    ELSE IF AngleTo(x.yaw, tgt) > x.perception.viewAngle THEN FALSE
    ELSE TRUE
CheckLineOfSight(x, tgt) ==
    IF x.target = NULL THEN FALSE
    ELSE IF tgt.dist > x.perception.viewDistance THEN FALSE
    ELSE IF 2 * AngleTo(x.yaw, tgt) > x.perception.viewAngle THEN FALSE
    ELSE TRUE

\* The last-known position and the last-seen time as setTarget and
\* updatePerception write them.  No code reads the two fields; they are
\* followed for an entity whose perception memory the host reads (watched).
TargetSeen(x, tgt, clock) ==
    IF x.watched
    THEN [x EXCEPT !.lastKnownTargetPosition = tgt, !.lastSeenTime = clock]
    ELSE x

\* updatePerception(deltaTime); clock is what Date.now() returns.
UpdatePerceptionAlways(x, tgt, clock) ==
    IF x.target = NULL \/ ~x.isAlive
    THEN [x EXCEPT !.hasLineOfSight = FALSE, !.distanceToTarget = Infinity]
    ELSE TargetSeen([x EXCEPT !.distanceToTarget = tgt.dist,
                              !.hasLineOfSight = CheckLineOfSight(x, tgt)],
                    tgt, clock)
UpdatePerception(x, tgt, clock) ==
    IF x.target = NULL \/ ~x.isAlive
    THEN [x EXCEPT !.hasLineOfSight = FALSE, !.distanceToTarget = Infinity]
    ELSE LET looked == [x EXCEPT !.distanceToTarget = tgt.dist,
                                 !.hasLineOfSight = CheckLineOfSight(x, tgt)]
         IN  IF looked.hasLineOfSight THEN TargetSeen(looked, tgt, clock) ELSE looked

\* ------------------------------------------------------------------------
\* AICharacter : movement
\* ------------------------------------------------------------------------
\* rotation.y = lerp(rotation.y, targetRotation, rotationSpeed * deltaTime).
\* Facing is kept on the grid of the bearings used; a lerp step either has
\* not left the current grid angle yet or has arrived at the target one,
\* which the draw `turn` decides.
Lerp(yaw, targetRotation, turn) == IF turn THEN targetRotation % 360 ELSE yaw

\* moveToward(targetPos, speed, deltaTime)
MoveToward(x, pos, speed, rnd) ==
    IF pos.dist > 1
    THEN [x EXCEPT !.yaw = Lerp(x.yaw, pos.bearing, rnd.turn), !.velocity = speed]
    ELSE [x EXCEPT !.velocity = ZeroVector]

\* ------------------------------------------------------------------------
\* AICharacter : the behaviour interface the default tree calls
\* ------------------------------------------------------------------------
OnRetreat(x) == SetState(x, RETREAT)

OnApproachTarget(x, tgt, rnd) ==
    IF tgt.dist > x.movementConfig.maxDistance
    THEN MoveToward(SetState(x, CHASE), tgt, x.movementConfig.runSpeed, rnd)
    ELSE IF tgt.dist < x.movementConfig.minDistance
    THEN \* half a unit straight away from the target
         MoveToward(x, Pos(IF tgt.dist = 0 THEN 0 ELSE 5, tgt.bearing + 180),
                    x.movementConfig.walkSpeed, rnd)
    ELSE SetState(x, ATTACK)

\* onAttack: attackRate is 1.0, so the cooldown is 1000 ms; performAttack
\* only logs.
OnAttack(x, rnd) ==
    LET a == SetState(x, ATTACK)
    IN  IF rnd.now - a.lastAttackTime > 1000
        THEN [a EXCEPT !.lastAttackTime = rnd.now]
        ELSE a

OnPatrol(x, rnd) ==
    LET p == SetState(x, PATROL)
    IN  IF Len(p.patrolPoints) = 0 THEN SetState(p, IDLE)
        ELSE IF p.patrolWaitTime > 0
        THEN [p EXCEPT !.patrolWaitTime = @ - 1]
        ELSE LET targetPoint == p.patrolPoints[p.currentPatrolIndex + 1]
                 next == p.currentPatrolIndex + p.patrolDirection
             IN  IF targetPoint.dist < 10
                 THEN [p EXCEPT
                         !.currentPatrolIndex =
                             IF next >= Len(p.patrolPoints) THEN Len(p.patrolPoints) - 1
                             ELSE IF next < 0 THEN 0
                             ELSE next,
                         !.patrolDirection =
                             IF next >= Len(p.patrolPoints) THEN -1
                             ELSE IF next < 0 THEN 1
                             ELSE @,
                         !.patrolWaitTime = Sec(20)]
                 ELSE MoveToward(p, targetPoint, p.movementConfig.patrolSpeed, rnd)

\* findNearestCover: the index of the first nearest cover spot, 0 for none.
FindNearestCover(x) ==
    IF Len(x.coverSpots) = 0 THEN 0
    ELSE CHOOSE i \in 1..Len(x.coverSpots) :
            \A j \in 1..Len(x.coverSpots) :
                \/ x.coverSpots[i].dist < x.coverSpots[j].dist
                \/ (x.coverSpots[i].dist = x.coverSpots[j].dist /\ i <= j)

\* ------------------------------------------------------------------------
\* Default enemy tree (createEnemyBehaviorTree) and its context
\* ------------------------------------------------------------------------
EnemyBehaviorTree ==
    BTSelector("root", <<
        BTSequence("retreatWhenLowHealth",
            <<BTCondition("isHealthLow"), BTAction("retreat")>>),
        BTSequence("attackWhenVisible",
            <<BTCondition("hasLineOfSight"), BTAction("approach"), BTAction("attack")>>),
        BTAction("patrol") >>)

\* createBTContext: the snapshot the conditions read, and what each action
\* of the default tree returns.
CreateBTContext(x) ==
    [isHealthLow |-> 10 * x.health < 3 * x.maxHealth,
     retreat |-> SUCCESS,
     hasLineOfSight |-> x.hasLineOfSight,
     approach |-> RUNNING,
     attack |-> SUCCESS,
     patrol |-> SUCCESS]

\* The effect on the entity of one executed leaf of the default tree.
EnemyLeaf(x, name, tgt, rnd) ==
    CASE name = "retreat" -> OnRetreat(x)
      [] name = "approach" -> OnApproachTarget(x, tgt, rnd)
      [] name = "attack" -> OnAttack(x, rnd)
      [] name = "patrol" -> OnPatrol(x, rnd)
      [] OTHER -> x

RECURSIVE RunLeaves(_, _, _, _, _)
RunLeaves(x, trace, i, tgt, rnd) ==
    IF i > Len(trace) THEN x
    ELSE CHOOSE last \in {RunLeaves(next, trace, i + 1, tgt, rnd) :
                             next \in {EnemyLeaf(x, trace[i], tgt, rnd)}} : TRUE

\* ------------------------------------------------------------------------
\* AICharacter : damage, death, stun
\* ------------------------------------------------------------------------
\* AICharacter.die
AICharacterDie(x) ==
    LET d == Stop(SetState([x EXCEPT !.isAlive = FALSE, !.health = 0], DEAD))
    IN  [HealthRead(d) EXCEPT !.onDeathCalls = @ + 1]

\* BossBase.die
BossBaseDie(x) == [AICharacterDie(x) EXCEPT !.onDefeatCalls = @ + 1]

\* this.die(), dispatched on the class of the entity
Die(x) == IF x.kind = "boss" THEN BossBaseDie(x) ELSE AICharacterDie(x)

\* The early return that opens AICharacter.takeDamage.
TakeDamageUnguarded(x) == FALSE
TakeDamageReturnsEarly(x) == ~x.isAlive

\* The armor's share of a hit.
ArmorDamageUncapped(x, amount) == IF x.armor > 0 THEN Half(amount) ELSE 0
ArmorDamage(x, amount) == IF x.armor > 0 THEN Min(x.armor, Half(amount)) ELSE 0

\* AICharacter.takeDamage(amount)
AICharacterTakeDamage(x, amount) ==
    IF TakeDamageReturnsEarly(x) THEN x
    ELSE LET armorDamage == ArmorDamage(x, amount)
             hit == [x EXCEPT !.armor = @ - armorDamage,
                              !.health = @ - (amount - armorDamage)]
             checked == IF hit.health <= 0 THEN Die(hit) ELSE hit
             cover == FindNearestCover(checked)
         IN  IF checked.armor > 0 /\ checked.characterType = SOLDIER /\ cover # 0
             THEN SetState([checked EXCEPT !.currentCoverSpot = cover], COVER)
             ELSE checked

\* AICharacter.takeDamage(amount) on an entity with an on-damage observer
\* which, as long as `more` is not empty, calls takeDamage(Head(more)) on the
\* entity from inside its callback (and so on in the nested call).
RECURSIVE TakeDamageObserved(_, _, _)
TakeDamageObserved(x, amount, more) ==
    IF TakeDamageReturnsEarly(x) THEN x
    ELSE LET armorDamage == ArmorDamage(x, amount)
             hit == [x EXCEPT !.armor = @ - armorDamage,
                              !.health = @ - (amount - armorDamage)]
             observed == IF more = <<>> THEN HealthRead(hit)
                         ELSE TakeDamageObserved(HealthRead(hit), Head(more), Tail(more))
             checked == IF observed.health <= 0 THEN Die(observed) ELSE observed
             cover == FindNearestCover(checked)
         IN  IF checked.armor > 0 /\ checked.characterType = SOLDIER /\ cover # 0
             THEN SetState([checked EXCEPT !.currentCoverSpot = cover], COVER)
             ELSE checked

\* AICharacter.stun(duration)
Stun(x, duration) ==
    Stop(SetState([x EXCEPT !.isStunned = TRUE, !.stunTime = duration], STUNNED))

\* The stun branch that opens every update(deltaTime).
StunRestoresIdle(x, deltaTime) ==
    LET t == [x EXCEPT !.stunTime = @ - deltaTime]
    IN  IF t.stunTime <= 0
        THEN SetState([t EXCEPT !.isStunned = FALSE], IDLE)
        ELSE t
UpdateStunned(x, deltaTime) ==
    LET t == [x EXCEPT !.stunTime = @ - deltaTime]
    IN  IF t.stunTime <= 0
        THEN SetState([t EXCEPT !.isStunned = FALSE], t.previousState)
        ELSE t

\* AICharacter.update(deltaTime); no mesh is attached, so the velocity is
\* not integrated and the position stays where the constructor put it.
AICharacterUpdate(x, tgt, deltaTime, rnd) ==
    IF ~x.isAlive THEN x
    ELSE IF x.isStunned THEN UpdateStunned(x, deltaTime)
    ELSE LET seen == UpdatePerception(x, tgt, rnd.now)
             run == Execute(EnemyBehaviorTree, CreateBTContext(seen))
         IN  RunLeaves([seen EXCEPT !.treeUpdates = @ + 1], run.trace, 1, tgt, rnd)

\* ------------------------------------------------------------------------
\* Enemy/Grunt.ts
\* ------------------------------------------------------------------------
\* Grunt.chase
GruntChase(x, tgt, rnd) ==
    IF x.target = NULL THEN x
    ELSE LET speed == IF x.isEnraged
                      THEN RMul(x.movementConfig.runSpeed, Rat(15, 10))
                      ELSE x.movementConfig.runSpeed
         IN  [x EXCEPT
                !.yaw = Lerp(x.yaw, IF tgt.dist = 0 THEN 0 ELSE tgt.bearing, rnd.turn),
                !.velocity = IF tgt.dist = 0 THEN ZeroVector ELSE speed]

\* Grunt.screech
Screech(x) == [x EXCEPT !.screechCooldown = Sec(50)]

\* Grunt.performAttack: out of reach nothing happens; otherwise the scratch
\* is dealt (logged), and an enraged Grunt off cooldown screeches.
GruntPerformAttack(x, tgt, rnd) ==
    IF x.target = NULL \/ ~x.isAlive THEN x
    ELSE IF tgt.dist > x.movementConfig.minDistance + 10 THEN x
    ELSE LET scratched ==
                [x EXCEPT !.lastScratchTime = rnd.now,
                          !.scratchGap = IF x.lastScratchTime = 0 THEN 0
                                         ELSE rnd.now - x.lastScratchTime]
         IN  IF scratched.isEnraged /\ scratched.screechCooldown <= 0
             THEN Screech(scratched)
             ELSE scratched

\* The attack interval Grunt.attack waits for, milliseconds.
AttackIntervalFixed(x) == 1000
AttackInterval(x) == IF x.isEnraged THEN 500 ELSE 1000

\* Grunt.attack
GruntAttack(x, tgt, rnd) ==
    LET a == SetState(x, ATTACK)
    IN  IF rnd.now - a.lastAttackTime > AttackInterval(a)
        THEN [GruntPerformAttack(a, tgt, rnd) EXCEPT !.lastAttackTime = rnd.now]
        ELSE a

\* Grunt.executeGruntAI
ExecuteGruntAI(x, tgt, rnd) ==
    LET distance == x.distanceToTarget
    IN  IF distance < x.movementConfig.minDistance
        THEN GruntAttack(SetState(x, ATTACK), tgt, rnd)
        ELSE IF 10 * distance > 7 * x.movementConfig.maxDistance
        THEN GruntChase(SetState(x, CHASE), tgt, rnd)
        ELSE LET chased == GruntChase(SetState(x, CHASE), tgt, rnd)
             IN  IF distance < x.movementConfig.minDistance + 20
                 THEN GruntAttack(chased, tgt, rnd)
                 ELSE chased

\* Grunt.executePatrol
GruntExecutePatrol(x, rnd) ==
    LET p == SetState(x, PATROL)
    IN  IF Len(p.patrolPoints) = 0 THEN p
        ELSE LET targetPoint == p.patrolPoints[p.currentPatrolIndex + 1]
             IN  IF targetPoint.dist < 10
                 THEN [p EXCEPT !.currentPatrolIndex = (@ + 1) % Len(p.patrolPoints)]
                 ELSE [p EXCEPT
                         !.velocity = p.movementConfig.patrolSpeed,
                         !.yaw = Lerp(p.yaw, targetPoint.bearing, rnd.turn)]

\* Grunt.enterEnraged
EnterEnraged(x) == [x EXCEPT !.isEnraged = TRUE, !.enterEnragedCalls = @ + 1]

\* The health below which Grunt.update enrages the Grunt.
EnragesBelowHalf(x) == 2 * x.health < x.maxHealth
EnragesBelow(x) == 10 * x.health < 3 * x.maxHealth

\* Grunt.update(deltaTime)
GruntUpdate(x, tgt, deltaTime, rnd) ==
    IF ~x.isAlive THEN x
    ELSE IF x.isStunned THEN UpdateStunned(x, deltaTime)
    ELSE LET cooled == IF x.screechCooldown > 0
                       THEN [x EXCEPT !.screechCooldown = @ - deltaTime]
                       ELSE x
             enraged == IF ~cooled.isEnraged /\ EnragesBelow(cooled)
                        THEN EnterEnraged(cooled)
                        ELSE cooled
             seen == UpdatePerception(enraged, tgt, rnd.now)
         IN  IF seen.target # NULL /\ seen.hasLineOfSight
             THEN ExecuteGruntAI(seen, tgt, rnd)
             ELSE IF Len(seen.patrolPoints) > 0
             THEN GruntExecutePatrol(seen, rnd)
             ELSE SetState(seen, IDLE)

\* ------------------------------------------------------------------------
\* Enemy/Soldier.ts
\* ------------------------------------------------------------------------
\* Soldier.moveToCover
MoveToCover(x, coverPosition, rnd) ==
    IF coverPosition.dist > 5
    THEN [x EXCEPT !.yaw = Lerp(x.yaw, coverPosition.bearing, rnd.turn),
                   !.velocity = x.movementConfig.runSpeed]
    ELSE [x EXCEPT !.velocity = ZeroVector]

\* Soldier.searchForCover: the first probe direction (1, 0, 0), 3 units out.
SearchForCover == <<Pos(30, 90)>>

\* Soldier.selectBestCover: none without a target; otherwise the spot with
\* the best score, in which a random quality term takes part: the draw
\* `pick` names the winner.
SelectBestCover(x, rnd) ==
    IF x.target = NULL THEN <<>>
    ELSE <<x.coverSpots[rnd.pick]>>

\* Soldier.findAndMoveToCover
FindAndMoveToCover(x, rnd) ==
    LET c == SetState(x, COVER)
        coverState == IF Len(c.coverSpots) = 0 THEN SearchForCover
                      ELSE SelectBestCover(c, rnd)
    IN  IF coverState # <<>> THEN MoveToCover(c, coverState[1], rnd) ELSE c

\* Soldier.moveWithCover, as tacticalAdvance (toward the target, a little
\* sideways) and tacticalRetreat (straight away from it) call it.
TacticalAdvance(x, tgt, rnd) ==
    IF x.target = NULL THEN x
    ELSE [x EXCEPT !.yaw = Lerp(x.yaw, IF tgt.dist = 0 THEN 0 ELSE tgt.bearing, rnd.turn),
                   !.velocity = IF tgt.dist = 0 THEN ZeroVector
                                ELSE x.movementConfig.walkSpeed]

TacticalRetreat(x, tgt, rnd) ==
    IF x.target = NULL THEN x
    ELSE [x EXCEPT !.yaw = Lerp(x.yaw, IF tgt.dist = 0 THEN 0 ELSE tgt.bearing + 180,
                               rnd.turn),
                   !.velocity = IF tgt.dist = 0 THEN ZeroVector
                                ELSE x.movementConfig.walkSpeed]

\* Soldier.tacticalReposition: a random cover spot, taken if over 2 units off.
TacticalReposition(x, rnd) ==
    IF x.target = NULL \/ Len(x.coverSpots) = 0 THEN x
    ELSE LET randomIndex == rnd.pick
             newPos == x.coverSpots[randomIndex]
         IN  IF newPos.dist > 20
             THEN MoveToCover([x EXCEPT !.currentCoverSpot = randomIndex], newPos, rnd)
             ELSE x

\* Soldier.burstSize
BurstSize == 3

\* Soldier.performAttack: the round is fired (logged) at a target in range.
SoldierPerformAttack(x, rnd) ==
    IF x.target = NULL \/ ~x.isAlive THEN x
    ELSE IF x.distanceToTarget > x.movementConfig.maxDistance THEN x
    ELSE [x EXCEPT !.roundGap = IF x.lastAttackTime = 0 THEN 0
                                ELSE rnd.now - x.lastAttackTime]

\* Soldier.performBurstFire: an empty burst is refilled on the spot, so the
\* branch that sets the 0.5 s pause is never taken.
PerformBurstFire(x, rnd) ==
    LET loaded == IF x.burstCount <= 0 THEN [x EXCEPT !.burstCount = BurstSize] ELSE x
    IN  IF loaded.burstCount > 0
        THEN IF rnd.now - loaded.lastAttackTime > 150
             THEN [SoldierPerformAttack(loaded, rnd) EXCEPT
                      !.burstCount = @ - 1, !.lastAttackTime = rnd.now]
             ELSE loaded
        ELSE loaded

\* Soldier.shouldSeekCover
ShouldSeekCover(x) ==
    \/ 10 * x.health < x.movementConfig.retreatDistance * x.maxHealth
    \/ x.suppressTimer > Sec(20)

\* Soldier.executeTacticalAI.  The grenade only logs and sets its own
\* cooldown; the reposition timer (3 to 5 s, random) has run out
\* when the draw `reposition` says so.
ExecuteTacticalAI(x, tgt, rnd) ==
    LET distance == x.distanceToTarget
        idealDistance2 == x.movementConfig.minDistance + x.movementConfig.maxDistance
    IN  IF ShouldSeekCover(x) THEN FindAndMoveToCover(x, rnd)
        ELSE IF 10 * 2 * distance > 12 * idealDistance2
        THEN TacticalAdvance(SetState(x, CHASE), tgt, rnd)
        ELSE IF distance < x.movementConfig.minDistance
        THEN TacticalRetreat(SetState(x, RETREAT), tgt, rnd)
        ELSE LET fired == PerformBurstFire(SetState(x, ATTACK), rnd)
             IN  IF rnd.reposition THEN TacticalReposition(fired, rnd) ELSE fired

\* Soldier.executePatrol: after setState(PATROL) it calls super.executePatrol,
\* which AICharacter does not define: the call throws a TypeError.
SoldierExecutePatrol(x) == [SetState(x, PATROL) EXCEPT !.raised = TRUE]

\* Soldier.updateTimers
UpdateTimers(x, deltaTime) ==
    IF x.suppressTimer > 0 THEN [x EXCEPT !.suppressTimer = @ - deltaTime] ELSE x

\* Soldier.update(deltaTime)
SoldierUpdate(x, tgt, deltaTime, rnd) ==
    IF ~x.isAlive THEN x
    ELSE IF x.isStunned THEN UpdateStunned(x, deltaTime)
    ELSE LET seen == UpdatePerception(UpdateTimers(x, deltaTime), tgt, rnd.now)
         IN  IF seen.target # NULL /\ seen.hasLineOfSight
             THEN ExecuteTacticalAI(seen, tgt, rnd)
             ELSE IF Len(seen.patrolPoints) > 0
             THEN SoldierExecutePatrol(seen)
             ELSE SetState(seen, IDLE)

\* The test that ends Soldier.takeDamage: hurt and not in cover.
SeeksCoverOnlyAtSpots(x) ==
    2 * x.health < x.maxHealth /\ x.state # COVER /\ Len(x.coverSpots) > 0
SeeksCoverWhenHurt(x) == 2 * x.health < x.maxHealth /\ x.state # COVER

\* Soldier.takeDamage(amount)
SoldierTakeDamage(x, amount, rnd) ==
    LET hit == AICharacterTakeDamage(x, amount)
        suppressed == [hit EXCEPT !.suppressTimer = @ + Sec(10)]
    IN  IF SeeksCoverWhenHurt(suppressed)
        THEN FindAndMoveToCover(suppressed, rnd)
        ELSE suppressed

\* ------------------------------------------------------------------------
\* Boss/BossBase.ts
\* ------------------------------------------------------------------------
\* BossBase.advanceToNextPhase
\* The phase hooks of a traced boss record their call, and the damage and
\* run speed they find, in events; so does its events.onPhaseChange.
PhaseHook(x, hook, phase) ==
    Traced(x, <<hook, phase.name, x.damage, x.movementConfig.runSpeed>>)

\* The new phase's multipliers over the old phase's, applied to the stats.
PhaseRescaled(x, oldPhase, newPhase) ==
    [x EXCEPT
        !.currentPhaseIndex = @ + 1,
        !.damage = RMul(@, RDiv(newPhase.damageMultiplier, oldPhase.damageMultiplier)),
        !.movementConfig.runSpeed =
            RMul(@, RDiv(newPhase.speedMultiplier, oldPhase.speedMultiplier))]

AdvanceToNextPhaseEnterFirst(x) ==
    IF x.currentPhaseIndex >= Len(x.phases) - 1 THEN x
    ELSE LET oldPhase == x.phases[x.currentPhaseIndex + 1]
             newPhase == x.phases[x.currentPhaseIndex + 2]
             exited == PhaseHook(x, "onExit", oldPhase)
             entered == PhaseHook(exited, "onEnter", newPhase)
             scaled == PhaseRescaled(entered, oldPhase, newPhase)
         IN  [Traced(scaled, <<"onPhaseChange", scaled.currentPhaseIndex, newPhase.name>>)
                EXCEPT !.onPhaseChangeCalls = @ + 1]
AdvanceToNextPhase(x) ==
    IF x.currentPhaseIndex >= Len(x.phases) - 1 THEN x
    ELSE LET oldPhase == x.phases[x.currentPhaseIndex + 1]
             newPhase == x.phases[x.currentPhaseIndex + 2]
             exited == PhaseHook(x, "onExit", oldPhase)
             scaled == PhaseRescaled(exited, oldPhase, newPhase)
             entered == PhaseHook(scaled, "onEnter", newPhase)
         IN  [Traced(entered, <<"onPhaseChange", entered.currentPhaseIndex, newPhase.name>>)
                EXCEPT !.onPhaseChangeCalls = @ + 1]

\* healthPercent <= threshold, the threshold an exact fraction.
PhaseThresholdPassed(x, threshold) ==
    x.health * threshold[2] < threshold[1] * x.maxHealth
PhaseThresholdReached(x, threshold) ==
    x.health * threshold[2] <= threshold[1] * x.maxHealth

\* BossBase.checkPhaseTransition
RECURSIVE CheckPhaseTransitionRepeated(_)
CheckPhaseTransitionRepeated(x) ==
    IF x.currentPhaseIndex >= Len(x.phases) - 1 THEN x
    ELSE LET threshold == x.phaseHealthThresholds[x.currentPhaseIndex + 1]
         IN  IF PhaseThresholdReached(x, threshold)
             THEN CheckPhaseTransitionRepeated(AdvanceToNextPhase(x))
             ELSE x
CheckPhaseTransition(x) ==
    IF x.currentPhaseIndex >= Len(x.phases) - 1 THEN x
    ELSE LET threshold == x.phaseHealthThresholds[x.currentPhaseIndex + 1]
         IN  IF PhaseThresholdReached(x, threshold)
             THEN AdvanceToNextPhase(x)
             ELSE x

\* BossBase.enterEnrage
EnterEnrage(x) ==
    IF x.isEnraged THEN x
    ELSE [x EXCEPT
            !.isEnraged = TRUE,
            !.onEnrageCalls = @ + 1,
            !.damage = RMul(@, x.enrageEffects.damageMultiplier),
            !.movementConfig.runSpeed = RMul(@, x.enrageEffects.speedMultiplier)]

\* healthPercent <= enrageThreshold (tenths)
EnrageThresholdPassed(x) == 10 * x.health < x.enrageThreshold * x.maxHealth
EnrageThresholdReached(x) == 10 * x.health <= x.enrageThreshold * x.maxHealth

\* BossBase.checkEnrage
CheckEnrage(x) ==
    IF x.isEnraged THEN x
    ELSE IF EnrageThresholdReached(x) THEN EnterEnrage(x)
    ELSE x

\* The early return that opens BossBase.performSpecialAttack.
SpecialAttackOverrides(x) == FALSE
SpecialAttackIsActive(x) == x.isPerformingSpecial

\* BossBase.performSpecialAttack
PerformSpecialAttack(x, attackName) ==
    IF SpecialAttackIsActive(x) THEN x
    ELSE [x EXCEPT !.isPerformingSpecial = TRUE, !.currentSpecialAttack = attackName,
                   !.onSpecialAttackCalls = @ + 1]

\* BossBase.endSpecialAttack
EndSpecialAttack(x) ==
    [x EXCEPT !.isPerformingSpecial = FALSE, !.currentSpecialAttack = NULL,
              !.specialAttackCooldown = Sec(30)]

\* BossBase.reset: the stats are divided by the first phase's multipliers.
BossBaseResetFromCurrentPhase(x) ==
    LET phase == x.phases[x.currentPhaseIndex + 1]
    IN  [x EXCEPT
            !.currentPhaseIndex = 0,
            !.isEnraged = FALSE,
            !.health = x.maxHealth,
            !.isPerformingSpecial = FALSE,
            !.currentSpecialAttack = NULL,
            !.specialAttackCooldown = 0,
            !.resetCalls = @ + 1,
            !.damage = RDiv(@, phase.damageMultiplier),
            !.movementConfig.runSpeed = RDiv(@, phase.speedMultiplier)]
BossBaseReset(x) ==
    LET firstPhase == x.phases[1]
    IN  [x EXCEPT
            !.currentPhaseIndex = 0,
            !.isEnraged = FALSE,
            !.health = x.maxHealth,
            !.isPerformingSpecial = FALSE,
            !.currentSpecialAttack = NULL,
            !.specialAttackCooldown = 0,
            !.resetCalls = @ + 1,
            !.damage = RDiv(@, firstPhase.damageMultiplier),
            !.movementConfig.runSpeed = RDiv(@, firstPhase.speedMultiplier)]

\* BossBase.takeDamage(amount)
BossBaseTakeDamage(x, amount) ==
    IF ~x.isAlive THEN x
    ELSE CheckEnrage(CheckPhaseTransition(AICharacterTakeDamage(x, amount)))

\* ------------------------------------------------------------------------
\* Boss/Trainer.ts
\* ------------------------------------------------------------------------
\* Trainer.moveTowardPlayer
MoveTowardPlayer(x, tgt, speed, rnd) ==
    IF x.target = NULL THEN x
    ELSE IF tgt.dist > 1
    THEN [x EXCEPT !.yaw = Lerp(x.yaw, tgt.bearing, rnd.turn), !.velocity = speed]
    ELSE x

\* Trainer.retreatFromPlayer
RetreatFromPlayer(x, tgt, rnd) ==
    IF x.target = NULL THEN x
    ELSE [x EXCEPT !.yaw = Lerp(x.yaw, IF tgt.dist = 0 THEN 0 ELSE tgt.bearing + 180,
                               rnd.turn),
                   !.velocity = IF tgt.dist = 0 THEN ZeroVector
                                ELSE x.movementConfig.walkSpeed]

\* Trainer.tacticalMovement: toward the target, a little to a random side.
TacticalMovement(x, tgt, rnd) ==
    IF x.target = NULL THEN x
    ELSE [x EXCEPT !.yaw = Lerp(x.yaw, IF tgt.dist = 0 THEN 0 ELSE tgt.bearing, rnd.turn),
                   !.velocity = IF tgt.dist = 0 THEN ZeroVector
                                ELSE x.movementConfig.walkSpeed]

\* Trainer.performIdleDemonstration
PerformIdleDemonstration(x) ==
    IF x.animationTimer <= 0 THEN [x EXCEPT !.animationTimer = Sec(15)] ELSE x

\* Trainer.performDemonstration; Math.random() < 0.3 is the draw `done`.
PerformDemonstration(x, done) ==
    IF x.demonstrationComplete THEN x
    ELSE [x EXCEPT !.animationTimer = Sec(20), !.demonstrationComplete = done]

\* The number of Trainer.teachingTips.
TeachingTips == 5

\* Trainer.giveTeachingTip
GiveTeachingTip(x) ==
    IF x.currentTipIndex < TeachingTips
    THEN [x EXCEPT !.currentTipIndex = @ + 1, !.teachingTimer = Sec(100)]
    ELSE x

\* The tree setupTrainerBehaviorTree builds, evaluated once.  In phase 0 the
\* training branch succeeds with its first leaf that applies.  In phase 1
\* the combat branch comes to the sequence 'comboAttack', built with a
\* function where its children belong: iterating them throws.
TrainerBehaviorTree(x, done) ==
    LET run == [x EXCEPT !.treeUpdates = @ + 1]
    IN  IF run.currentPhaseIndex = 0
        THEN IF ~run.demonstrationComplete THEN PerformDemonstration(run, done)
             ELSE IF run.teachingTimer <= 0 THEN GiveTeachingTip(run)
             ELSE run
        ELSE IF run.currentPhaseIndex = 1 THEN [run EXCEPT !.raised = TRUE]
        ELSE SetState(run, IDLE)

\* Trainer.executeTrainingAI
ExecuteTrainingAI(x, tgt, deltaTime, rnd) ==
    LET timed == [x EXCEPT !.teachingTimer =
                                IF @ > deltaTime THEN @ - deltaTime ELSE 0]
        distance == timed.distanceToTarget
    IN  IF 10 * distance > 8 * timed.movementConfig.maxDistance
        THEN MoveTowardPlayer(SetState(timed, CHASE), tgt,
                              timed.movementConfig.walkSpeed, rnd)
        ELSE IF distance < 2 * timed.movementConfig.minDistance
        THEN RetreatFromPlayer(SetState(timed, RETREAT), tgt, rnd)
        ELSE PerformIdleDemonstration(SetState(timed, IDLE))

\* Trainer.maxCombos
MaxCombos == 3

\* Trainer.comboAttack: the attack is logged, the counter goes up whatever
\* it is, and the window opens anew.
ComboAttack(x) == [x EXCEPT !.comboCount = @ + 1, !.comboWindow = Sec(20)]

\* The combo window at the head of Trainer.executeCombatAI.
ComboWindow(x, deltaTime) ==
    IF x.comboWindow > 0
    THEN LET t == [x EXCEPT !.comboWindow = @ - deltaTime]
         IN  IF t.comboWindow <= 0 THEN [t EXCEPT !.comboCount = 0] ELSE t
    ELSE x

\* Trainer.executeCombatAI; Math.random() < 0.02 is the draw `special`.
\* flashbangCooldown is only set by a leaf of the tree and stays 0.
ExecuteCombatAI(x, tgt, deltaTime, rnd) ==
    LET timed == ComboWindow(x, deltaTime)
        distance == timed.distanceToTarget
    IN  IF timed.isEnraged
        THEN LET chasing == MoveTowardPlayer(SetState(timed, CHASE), tgt,
                                             timed.movementConfig.runSpeed, rnd)
             IN  IF rnd.special THEN PerformSpecialAttack(chasing, "enrage_burst")
                 ELSE chasing
        ELSE IF 10 * distance > 7 * timed.movementConfig.maxDistance
        THEN MoveTowardPlayer(SetState(timed, CHASE), tgt,
                              timed.movementConfig.runSpeed, rnd)
        ELSE IF distance < timed.movementConfig.minDistance
        THEN ComboAttack(SetState(timed, ATTACK))
        ELSE TacticalMovement(SetState(timed, ATTACK), tgt, rnd)

\* Trainer.executeBossAI
ExecuteBossAI(x, tgt, deltaTime, rnd) ==
    LET called == [x EXCEPT !.bossAICalls = @ + 1]
        acted == IF called.currentPhaseIndex = 0
                 THEN ExecuteTrainingAI(called, tgt, deltaTime, rnd)
                 ELSE ExecuteCombatAI(called, tgt, deltaTime, rnd)
    IN  IF acted.animationTimer > 0
        THEN [acted EXCEPT !.animationTimer = @ - deltaTime]
        ELSE acted

\* Trainer.updateSpecialAttack: only the 'flashbang' special attack has an
\* update step, so any other active special attack stays as it is.
UpdateSpecialAttack(x, deltaTime) ==
    IF x.currentSpecialAttack = "flashbang"
    THEN LET t == [x EXCEPT !.animationTimer = @ - deltaTime]
         IN  IF t.animationTimer <= 0 THEN EndSpecialAttack(t) ELSE t
    ELSE x

\* Whether BossBase.update leaves out executeBossAI.
SpecialNeverSuppresses(x) == FALSE
SpecialSuppressesAI(x) == x.isPerformingSpecial

\* BossBase.update(deltaTime)
BossBaseUpdate(x, tgt, deltaTime, rnd) ==
    IF ~x.isAlive THEN x
    ELSE IF x.isStunned THEN UpdateStunned(x, deltaTime)
    ELSE LET cooled == IF x.specialAttackCooldown > 0
                       THEN [x EXCEPT !.specialAttackCooldown = @ - deltaTime]
                       ELSE x
             special == IF cooled.isPerformingSpecial /\ cooled.currentSpecialAttack # NULL
                        THEN UpdateSpecialAttack(cooled, deltaTime)
                        ELSE cooled
             seen == UpdatePerception(special, tgt, rnd.now)
         IN  IF ~SpecialSuppressesAI(seen)
             THEN ExecuteBossAI(seen, tgt, deltaTime, rnd)
             ELSE seen

\* ------------------------------------------------------------------------
\* The calls a host makes, dispatched on the class of the entity
\* ------------------------------------------------------------------------
TakeDamageOf(x, amount, rnd) ==
    CASE x.kind = "soldier" -> SoldierTakeDamage(x, amount, rnd)
      [] x.kind = "boss" -> BossBaseTakeDamage(x, amount)
      [] OTHER -> AICharacterTakeDamage(x, amount)

UpdateOf(x, tgt, deltaTime, rnd) ==
    CASE x.kind = "grunt" -> GruntUpdate(x, tgt, deltaTime, rnd)
      [] x.kind = "soldier" -> SoldierUpdate(x, tgt, deltaTime, rnd)
      [] x.kind = "boss" -> BossBaseUpdate(x, tgt, deltaTime, rnd)
      [] OTHER -> AICharacterUpdate(x, tgt, deltaTime, rnd)

\* ------------------------------------------------------------------------
\* The host and the world: inputs
\* ------------------------------------------------------------------------
\* Hits are given in tenths of the entity's maxHealth: a negative one, a
\* zero one, a 30% one and one that kills outright.
DamageTenths == {-3, 0, 3, 20}
DamageAmount(x, tenths) == (tenths * x.maxHealth) \div 10

MaxComboCount == 4

\* A negative hit heals; the host stops healing an entity whose health is
\* more than MaxOverheal points over its maxHealth.
MaxOverheal == 5
\* The host stops hitting a Soldier whose suppression timer is over
\* MaxSuppress seconds.
MaxSuppress == 2

StunDurations == {Sec(10), Sec(15)}
DeltaTimes == {Sec(10)}

\* Where the target can be: straight ahead of the entity's first facing at
\* one distance of every band the AIs distinguish (on the spot, within a
\* Grunt's reach, close, medium, far, out of everybody's view), or at
\* medium distance to its side.  An entity that has turned round has the former behind it.
TargetDistances == {0, 10, 30, 120, 240, 700}
TargetPositions == {Pos(d, 0) : d \in TargetDistances} \cup {Pos(120, 90)}

CoverSpots == <<Pos(100, 180)>>
PatrolRoute == <<Pos(5, 0), Pos(100, 180)>>

\* What one call reads from outside: the clock, and the draws, that is
\* whether a lerp arrives, which cover spot wins,
\* whether the Soldier's reposition timer has run out, Math.random() < 0.02.
\* A draw the entity's class never makes is fixed.
DrawsFor(x) ==
    [now : {now},
     turn : IF x.isAlive THEN BOOLEAN ELSE {FALSE},
     pick : IF x.kind = "soldier" /\ Len(x.coverSpots) > 0
            THEN 1..Len(x.coverSpots) ELSE {1},
     reposition : IF x.kind = "soldier" /\ Len(x.coverSpots) > 0 THEN BOOLEAN ELSE {FALSE},
     special : IF x.kind = "boss" /\ x.isEnraged THEN BOOLEAN ELSE {FALSE}]

\* The entity as a call finds it: what is recorded of the last call is of
\* the call before.
Called(x) ==
    [x EXCEPT !.raised = FALSE, !.treeUpdates = 0, !.bossAICalls = 0,
              !.onSpecialAttackCalls = 0, !.events = <<>>, !.healthRead = {}]

\* The host assigns a patrol route (patrolPoints is a public field).
WithPatrol(x, route) == [x EXCEPT !.patrolPoints = route]

Entities ==
    {AICharacter("base", BASE_CONFIG, <<>>, <<>>),
     WithPatrol(Grunt, PatrolRoute),
     Soldier(CoverSpots),
     WithPatrol(Soldier(<<>>), PatrolRoute),
     Trainer}

\* The caller's watch on its last stun.  It is "stunned" from a stun(d) of a
\* live entity in state `from` (not STUNNED) for as long as only update and
\* takeDamage calls follow, the entity lives, and the deltaTimes of the
\* updates add up to less than d (left is what is missing); it is "elapsed"
\* right after the update that brought them to d or over.  hit tells that
\* a takeDamage was among the calls.  hitDead tells that takeDamage has
\* been called on the entity after its death.
ObsInit ==
    [watch |-> "off", from |-> IDLE, left |-> 0, hit |-> FALSE, hitDead |-> FALSE]

\* No stun is being watched (any more).
WatchOff(o) == [ObsInit EXCEPT !.hitDead = o.hitDead]

\* The clock when the entity is constructed: lastAttackTime starts at 0 and
\* Date.now() is far more than any attack interval past it.
Epoch == 2000

Init ==
    /\ e \in Entities
    /\ target = Pos(0, 0)
    /\ obs = ObsInit
    /\ bt = BTInitFor(BTAction(StubName(1)))
    /\ now = Epoch

\* setTarget(target): the host injects the player object, which is where
\* it was last read
SetTarget ==
    /\ e' = TargetSeen([Called(e) EXCEPT !.target = "player"], target, now)
    /\ obs' = WatchOff(obs)
    /\ UNCHANGED <<target, bt, now>>

\* takeDamage(amount), amount being `tenths` tenths of maxHealth
TakeDamageWith(tenths, rnd) ==
    /\ tenths < 0 => e.health <= e.maxHealth + Pt(MaxOverheal)
    /\ e.kind = "soldier" => e.suppressTimer <= Sec(10) * MaxSuppress
    /\ e' = TakeDamageOf(Called(e), DamageAmount(e, tenths), rnd)
    /\ obs' = IF obs.watch = "stunned" /\ e'.isAlive
              THEN [obs EXCEPT !.hit = TRUE]
              ELSE [WatchOff(obs) EXCEPT !.hitDead = @ \/ ~e.isAlive]
    /\ UNCHANGED <<target, bt, now>>

TakeDamage == \E tenths \in DamageTenths, rnd \in DrawsFor(e) : TakeDamageWith(tenths, rnd)

\* stun(duration)
StunCall ==
    \E duration \in StunDurations :
        /\ e' = Stun(Called(e), duration)
        /\ obs' = IF e.isAlive /\ e.state # STUNNED
                  THEN [WatchOff(obs) EXCEPT
                           !.watch = "stunned", !.from = e.state, !.left = duration]
                  ELSE WatchOff(obs)
        /\ UNCHANGED <<target, bt, now>>

\* The target object moves in the world between the calls; `target` is its
\* position as the entity last read it, and a call that reads it (the
\* perception refresh of a live entity with a target) finds it at any
\* position.
ReadsTarget(x) == x.isAlive /\ x.target # NULL
PositionsRead(x, reads) == IF reads THEN TargetPositions ELSE {target}

\* update(deltaTime); the host stops updating a Trainer whose combo counter
\* has come to MaxComboCount.
Update ==
    \E deltaTime \in DeltaTimes, rnd \in DrawsFor(e),
       p \in PositionsRead(e, ReadsTarget(e) /\ ~e.isStunned) :
        /\ e.comboCount < MaxComboCount
        /\ target' = p
        /\ e' = UpdateOf(Called(e), p, deltaTime, rnd)
        /\ obs' = IF obs.watch = "stunned"
                  THEN IF obs.left <= deltaTime
                       THEN [obs EXCEPT !.watch = "elapsed", !.left = 0]
                       ELSE [obs EXCEPT !.left = @ - deltaTime]
                  ELSE WatchOff(obs)
        /\ UNCHANGED <<bt, now>>

\* updatePerception(deltaTime), called on its own
UpdatePerceptionCall ==
    \E p \in PositionsRead(e, ReadsTarget(e)) :
        /\ target' = p
        /\ e' = UpdatePerception(Called(e), p, now)
        /\ obs' = WatchOff(obs)
        /\ UNCHANGED <<bt, now>>

Next ==
    \/ SetTarget
    \/ TakeDamage
    \/ StunCall
    \/ Update
    \/ UpdatePerceptionCall

Spec == Init /\ [][Next]_vars

\* The host only hits and stuns the entity.
NextDamage ==
    \/ TakeDamage
    \/ StunCall

SpecDamage == Init /\ [][NextDamage]_vars

\* The host only gives the entity a target and ticks it.
NextPerception ==
    \/ SetTarget
    \/ Update
    \/ UpdatePerceptionCall

SpecPerception == Init /\ [][NextPerception]_vars

\* ------------------------------------------------------------------------
\* State management on its own: a traced entity with observers, its state
\* set from outside
\* ------------------------------------------------------------------------
MaxObservers == 2

InitState ==
    /\ e \in {[x EXCEPT !.traced = TRUE] : x \in Entities}
    /\ target = Pos(0, 0)
    /\ obs = ObsInit
    /\ bt = BTInitFor(BTAction(StubName(1)))
    /\ now = Epoch

\* onStateChange(callback)
OnStateChangeCall ==
    /\ e.observers < MaxObservers
    /\ e' = [Called(e) EXCEPT !.observers = @ + 1]
    /\ UNCHANGED <<target, obs, bt, now>>

\* setState(newState)
SetStateWith(newState) ==
    /\ e' = SetState(Called(e), newState)
    /\ UNCHANGED <<target, obs, bt, now>>

SetStateCall == \E newState \in AIState : SetStateWith(newState)

NextState ==
    \/ OnStateChangeCall
    \/ SetStateCall
    \/ TakeDamage

SpecState == InitState /\ [][NextState]_vars

\* ------------------------------------------------------------------------
\* A Grunt on its own, with time passing between the calls
\* ------------------------------------------------------------------------
\* The clock is read to ClockStep milliseconds, and the host stops after
\* MaxClock steps of it.
ClockStep == 250
MaxClock == 6

InitGrunt ==
    /\ Init
    /\ e.kind = "grunt"

\* Time passes.
Tick ==
    /\ now < Epoch + MaxClock * ClockStep
    /\ now' = now + ClockStep
    /\ UNCHANGED <<e, target, obs, bt>>

NextGrunt ==
    \/ SetTarget
    \/ TakeDamage
    \/ Update
    \/ Tick

SpecGrunt == InitGrunt /\ [][NextGrunt]_vars

\* A Soldier, hit and ticked, the clock standing still.
InitSoldier ==
    /\ Init
    /\ e.kind = "soldier"

\* The hits a Soldier takes, tenths of its maxHealth: with the 50% one its
\* health can come to lie between 40% and 50% of maxHealth.
SoldierDamageTenths == {0, 3, 5, 20}

SoldierTakeDamageCall ==
    \E tenths \in SoldierDamageTenths, rnd \in DrawsFor(e) : TakeDamageWith(tenths, rnd)

NextSoldier ==
    \/ SetTarget
    \/ SoldierTakeDamageCall
    \/ Update

SpecSoldier == InitSoldier /\ [][NextSoldier]_vars

\* An unhurt Soldier ticked while the clock runs.
NextBurst ==
    \/ SetTarget
    \/ Update
    \/ Tick

SpecBurst == InitSoldier /\ [][NextBurst]_vars

\* A Grunt under every call of the host, the clock standing still.
SpecGruntLife == InitGrunt /\ [][Next]_vars

\* ------------------------------------------------------------------------
\* The boss on its own, the host starting special attacks as well
\* ------------------------------------------------------------------------
SpecialAttacks == {"flashbang", "enrage_burst"}
\* Every 'flashbang' update takes deltaTime off animationTimer; the host
\* starts none once the timer is MaxOverdue seconds or more below zero.
MaxOverdue == 1

InitBoss ==
    /\ Init
    /\ e.kind = "boss"

\* performSpecialAttack(attackName)
PerformSpecialAttackWith(attackName) ==
    /\ attackName = "flashbang" => e.animationTimer > -Sec(10) * MaxOverdue
    /\ e' = PerformSpecialAttack(Called(e), attackName)
    /\ UNCHANGED <<target, obs, bt, now>>

PerformSpecialAttackCall ==
    \E attackName \in SpecialAttacks : PerformSpecialAttackWith(attackName)

NextBoss ==
    \/ SetTarget
    \/ TakeDamage
    \/ Update
    \/ PerformSpecialAttackCall

SpecBoss == InitBoss /\ [][NextBoss]_vars

\* The boss, never hit nor stunned, given special attacks and updated
\* again and again: the host's loop does not stop updating it.
NextSpecial ==
    \/ SetTarget
    \/ Update
    \/ PerformSpecialAttackCall

SpecSpecial == InitBoss /\ [][NextSpecial]_vars /\ WF_vars(Update)

\* The Trainer hit, and its behaviour tree evaluated, by the host
\* (behaviorTree is a public field): behaviorTree.update(deltaTime).
TreeUpdateCall ==
    \E done \in BOOLEAN :
        /\ e' = TrainerBehaviorTree(Called(e), done)
        /\ obs' = WatchOff(obs)
        /\ UNCHANGED <<target, bt, now>>

NextTrainer ==
    \/ SetTarget
    \/ TakeDamage
    \/ TreeUpdateCall

SpecTrainer == InitBoss /\ [][NextTrainer]_vars

\* The boss under every call of the host but performSpecialAttack.
SpecBossLife == InitBoss /\ [][Next]_vars

\* ------------------------------------------------------------------------
\* The phase system on its own: a BossBase built from any list of up to
\* MaxPhases phases, hit and reset by the host
\* ------------------------------------------------------------------------
MaxPhases == 3

\* The health budgets a phase may have.
PhaseHealths == {Pt(100), Pt(300)}

\* The phase in place i of a list: multipliers 0.5, 1.0, 1.5, ... on damage
\* and 0.7, 0.8, 0.9, ... on speed.
PhaseConfig(i, health) ==
    [name |-> <<"phase", i>>, health |-> health,
     damageMultiplier |-> Rat(i, 2), speedMultiplier |-> Rat(6 + i, 10)]

\* The boss configurations: the Trainer's, with every list of phases, each
\* phase with both hooks.
BossConfigs ==
    {[TRAINER_CONFIG EXCEPT
         !.phases = [i \in 1..Len(healths) |-> PhaseConfig(i, healths[i])]] :
       healths \in UNION {[1..n -> PhaseHealths] : n \in 1..MaxPhases}}

InitPhases ==
    /\ e \in {[BossBase(config) EXCEPT !.traced = TRUE] : config \in BossConfigs}
    /\ target = Pos(0, 0)
    /\ obs = ObsInit
    /\ bt = BTInitFor(BTAction(StubName(1)))
    /\ now = Epoch

\* The hits the boss takes, tenths of its maxHealth: the 90% one can take
\* its health over two phase thresholds at once.
BossDamageTenths == {0, 3, 9, 20}

BossTakeDamageCall ==
    \E tenths \in BossDamageTenths, rnd \in DrawsFor(e) : TakeDamageWith(tenths, rnd)

\* reset(); the host resets a boss MaxResets times at most.
MaxResets == 2

ResetCall ==
    /\ e.resetCalls < MaxResets
    /\ e' = BossBaseReset(Called(e))
    /\ obs' = WatchOff(obs)
    /\ UNCHANGED <<target, bt, now>>

NextPhases ==
    \/ BossTakeDamageCall
    \/ ResetCall

SpecPhases == InitPhases /\ [][NextPhases]_vars

\* ------------------------------------------------------------------------
\* State-change observers of an entity that is given a target and ticked
\* ------------------------------------------------------------------------
NextNotified ==
    \/ OnStateChangeCall
    \/ SetTarget
    \/ Update

SpecNotified == Init /\ [][NextNotified]_vars

\* ------------------------------------------------------------------------
\* The base entity with the default enemy tree, given a target and updated
\* again and again while the clock runs: the host's loop does not stop
\* updating it
\* ------------------------------------------------------------------------
InitDefaultTree ==
    /\ Init
    /\ e.kind = "base"

NextDefaultTree ==
    \/ SetTarget
    \/ Update
    \/ Tick

SpecDefaultTree == InitDefaultTree /\ [][NextDefaultTree]_vars /\ WF_vars(Update)

\* ------------------------------------------------------------------------
\* Observers: an entity of the base class or a Grunt (which inherits
\* takeDamage) whose observers read its health, the on-damage observer
\* calling takeDamage again from inside its callback, up to MaxNesting deep
\* ------------------------------------------------------------------------
MaxNesting == 2

\* The hits, tenths of maxHealth, of the host and of the on-damage observer.
ObservedDamageTenths == {0, 3, 20}

InitObserved ==
    /\ e \in {[x EXCEPT !.probed = TRUE] :
                x \in {AICharacter("base", BASE_CONFIG, <<>>, <<>>), Grunt}}
    /\ target = Pos(0, 0)
    /\ obs = ObsInit
    /\ bt = BTInitFor(BTAction(StubName(1)))
    /\ now = Epoch

\* takeDamage(amount), the on-damage observer re-entering with `more`
ObservedTakeDamageWith(tenths, more) ==
    /\ e' = TakeDamageObserved(Called(e), DamageAmount(e, tenths),
                               [i \in 1..Len(more) |-> DamageAmount(e, more[i])])
    /\ obs' = IF obs.watch = "stunned" /\ e'.isAlive
              THEN [obs EXCEPT !.hit = TRUE]
              ELSE [WatchOff(obs) EXCEPT !.hitDead = @ \/ ~e.isAlive]
    /\ UNCHANGED <<target, bt, now>>

ObservedTakeDamageCall ==
    \E tenths \in ObservedDamageTenths,
       more \in UNION {[1..n -> ObservedDamageTenths] : n \in 0..MaxNesting} :
        ObservedTakeDamageWith(tenths, more)

NextObserved ==
    \/ ObservedTakeDamageCall
    \/ OnStateChangeCall
    \/ StunCall

SpecObserved == InitObserved /\ [][NextObserved]_vars

\* ------------------------------------------------------------------------
\* Perception memory: an entity whose last-known target position and
\* last-seen time the host reads, given a target and ticked while the clock
\* runs
\* ------------------------------------------------------------------------
InitMemory ==
    /\ e = [AICharacter("base", BASE_CONFIG, <<>>, <<>>) EXCEPT !.watched = TRUE]
    /\ target = Pos(0, 0)
    /\ obs = ObsInit
    /\ bt = BTInitFor(BTAction(StubName(1)))
    /\ now = Epoch

NextMemory ==
    \/ SetTarget
    \/ Update
    \/ UpdatePerceptionCall
    \/ Tick

\* The base entity with its perception memory read by the host.
SpecMemory == InitMemory /\ [][NextMemory]_vars

\* ------------------------------------------------------------------------
\* The behaviour-tree engine on its own: a tree of stubs, updated with every
\* combination of stub results
\* ------------------------------------------------------------------------
InitBT ==
    /\ e = AICharacter("base", BASE_CONFIG, <<>>, <<>>)
    /\ target = Pos(0, 0)
    /\ obs = ObsInit
    /\ bt \in {BTInitFor(root) : root \in TestRoots}
    /\ now = Epoch

\* tree.update(deltaTime), the stubs set to return `results`
BTUpdate ==
    /\ \E results \in [StubNames -> NodeStatus] :
            bt' = BehaviorTreeUpdate([bt EXCEPT !.stubs = results])
    /\ UNCHANGED <<e, target, obs, now>>

\* tree.setContext({isAlive})
BTSetContext ==
    /\ \E isAlive \in BOOLEAN : bt' = BehaviorTreeSetContext(bt, isAlive)
    /\ UNCHANGED <<e, target, obs, now>>

\* tree.reset()
BTReset ==
    /\ bt' = BehaviorTreeReset(bt)
    /\ UNCHANGED <<e, target, obs, now>>

NextBT ==
    \/ BTUpdate
    \/ BTSetContext
    \/ BTReset

SpecBT == InitBT /\ [][NextBT]_vars

\* ------------------------------------------------------------------------
\* Properties of the behaviour-tree engine (under SpecBT)
\* ------------------------------------------------------------------------
\* The result stub i of the tree under test was set to return.
StubResult(i) == bt.stubs[StubName(i)]
\* The number of children of the composite under test.
ChildCount == Len(bt.root.children)
\* The stubs 1..n, in order: the call log of a run that called just them.
FirstStubs(n) == [i \in 1..n |-> StubName(i)]
\* The first child whose result is in `stopping`, ChildCount + 1 if none.
FirstStop(stopping) ==
    IF \E i \in 1..ChildCount : StubResult(i) \in stopping
    THEN CHOOSE i \in 1..ChildCount :
            /\ StubResult(i) \in stopping
            /\ \A j \in 1..(i - 1) : StubResult(j) \notin stopping
    ELSE ChildCount + 1

\* C5: an executed BTSequence has called its children in order, each once,
\* up to and including the first one returning Failure or Running and none
\* after it; it returned that child's status, and Success exactly when
\* every child was called and returned Success (no child called and
\* Success for an empty list).
C5_SequenceStopsAtFirstFailureOrRunning ==
    (bt.root.type = "sequence" /\ bt.ran) =>
        LET k == FirstStop({FAILURE, RUNNING})
        IN  /\ bt.calls = FirstStubs(Min(k, ChildCount))
            /\ bt.returned = IF k <= ChildCount THEN StubResult(k) ELSE SUCCESS
            /\ bt.returned = SUCCESS <=>
                    /\ Len(bt.calls) = ChildCount
                    /\ \A i \in 1..ChildCount : StubResult(i) = SUCCESS
            /\ ChildCount = 0 => bt.calls = <<>> /\ bt.returned = SUCCESS

\* A sequence of MaxChildren stubs whose second child failed after the
\* first succeeded: two calls, Failure returned.
C5_Witness ==
    /\ bt.root.type = "sequence" /\ bt.ran /\ ChildCount = MaxChildren
    /\ StubResult(1) = SUCCESS /\ StubResult(2) = FAILURE
    /\ bt.calls = <<StubName(1), StubName(2)>>
    /\ bt.returned = FAILURE

\* C6: an executed BTSelector has called its children in order, each once,
\* up to and including the first one returning Success or Running and none
\* after it; it returned that child's status, and Failure exactly when
\* every child was called and returned Failure (no child called and
\* Failure for an empty list).
C6_SelectorReturnsFirstNonFailure ==
    (bt.root.type = "selector" /\ bt.ran) =>
        LET k == FirstStop({SUCCESS, RUNNING})
        IN  /\ bt.calls = FirstStubs(Min(k, ChildCount))
            /\ bt.returned = IF k <= ChildCount THEN StubResult(k) ELSE FAILURE
            /\ bt.returned = FAILURE <=>
                    /\ Len(bt.calls) = ChildCount
                    /\ \A i \in 1..ChildCount : StubResult(i) = FAILURE
            /\ ChildCount = 0 => bt.calls = <<>> /\ bt.returned = FAILURE

\* A selector of MaxChildren stubs whose second child is Running after the
\* first failed: two calls, Running returned.
C6_Witness ==
    /\ bt.root.type = "selector" /\ bt.ran /\ ChildCount = MaxChildren
    /\ StubResult(1) = FAILURE /\ StubResult(2) = RUNNING
    /\ bt.calls = <<StubName(1), StubName(2)>>
    /\ bt.returned = RUNNING

C1_HealthWithinBounds == 0 <= e.health /\ e.health <= e.maxHealth

\* C2: the on-death callbacks have been invoked once if the entity has
\* died (its health was brought to 0 or below) and not at all otherwise,
\* however many takeDamage calls followed the death; a boss's onDefeat has
\* been invoked as often as the on-death callbacks, and nobody else's ever.
C2_DeathCallbacksOnce ==
    /\ e.onDeathCalls = IF e.isAlive THEN 0 ELSE 1
    /\ e.isAlive <=> e.health > 0
    /\ e.onDefeatCalls = IF e.kind = "boss" THEN e.onDeathCalls ELSE 0

\* A boss that has died and been hit again after its death.
C2_Witness ==
    /\ e.kind = "boss" /\ ~e.isAlive /\ obs.hitDead
    /\ e.onDeathCalls = 1 /\ e.onDefeatCalls = 1

\* C3: state = DEAD exactly when isAlive is false.
C3_DeadIffNotAlive == (e.state = DEAD) <=> ~e.isAlive

\* C4: a takeDamage(amount) with amount >= 0 on a live entity takes
\* absorbed = min(armor, amount / 2) off armor and amount - absorbed off
\* health, health floored at 0, and leaves armor non-negative.
C4_ArmorAbsorbsHalf ==
    [][\A tenths \in DamageTenths, rnd \in DrawsFor(e) :
          LET amount == DamageAmount(e, tenths)
              absorbed == IF e.armor <= amount \div 2 THEN e.armor ELSE amount \div 2
              rest == e.health - (amount - absorbed)
          IN  (TakeDamageWith(tenths, rnd) /\ e.isAlive /\ amount >= 0) =>
                  /\ e'.armor = e.armor - absorbed
                  /\ e'.health = IF rest < 0 THEN 0 ELSE rest
                  /\ e'.armor >= 0]_vars

\* The entity of the claim's example (maxHealth 100, armor 20) after
\* takeDamage(30): armor 5, health 85.
C4_Witness ==
    /\ e.kind = "base" /\ e.maxHealth = Pt(100)
    /\ e.health = Pt(85) /\ e.armor = Pt(5)

\* C8: from a stun of a live entity in state S other than STUNNED, while
\* only updates have followed and their deltaTimes add up to less than the
\* duration, the state is STUNNED and the velocity zero; right after the
\* update that brings them to the duration or over, the state is S.
C8_StunHoldsThenRestores ==
    /\ (obs.watch = "stunned" /\ ~obs.hit) =>
            e.state = STUNNED /\ e.velocity = ZeroVector
    /\ (obs.watch = "elapsed" /\ ~obs.hit) => e.state = obs.from

\* An entity stunned while chasing, back in CHASE after the stun elapsed
\* under updates alone.
C8_Witness ==
    /\ obs.watch = "elapsed" /\ ~obs.hit
    /\ obs.from = CHASE /\ e.state = CHASE /\ ~e.isStunned

\* C9: from a stun of a live entity in state S other than STUNNED, while
\* only updates and non-lethal takeDamage calls have followed and the
\* updates' deltaTimes add up to less than the duration, the state is
\* STUNNED; right after the update that brings them to the duration or
\* over, the state is S.
C9_StunHoldsUnderDamage ==
    /\ obs.watch = "stunned" => e.state = STUNNED
    /\ obs.watch = "elapsed" => e.state = obs.from

\* The angle between the facing direction and the direction to a position
\* away from the entity, degrees in 0..180.
AngleOff(yaw, pos) ==
    CHOOSE a \in 0..180 : \E turns \in -1..1 :
        pos.bearing - yaw = a + 360 * turns \/ yaw - pos.bearing = a + 360 * turns

\* C10: an updatePerception of a live entity with a target (the target
\* away from the entity) leaves hasLineOfSight true exactly when the
\* target's distance is at most viewDistance and the angle between the
\* facing direction and the direction to the target at most viewAngle / 2;
\* with viewAngle 90 a target right behind is not seen, and a target dead
\* ahead within viewDistance is seen.
C10_LineOfSightIsTheViewCone ==
    [][(UpdatePerceptionCall /\ e.isAlive /\ e.target # NULL /\ target'.dist > 0) =>
          LET angle == AngleOff(e.yaw, target')
          IN  /\ e'.hasLineOfSight <=>
                    /\ target'.dist <= e.perception.viewDistance
                    /\ 2 * angle <= e.perception.viewAngle
              /\ (e.perception.viewAngle = 90 /\ angle = 180) => ~e'.hasLineOfSight
              /\ (angle = 0 /\ target'.dist <= e.perception.viewDistance) =>
                    e'.hasLineOfSight]_vars

\* A Grunt (viewAngle 90) whose perception has read a target right behind
\* it, well within viewDistance, and does not see it.
C10_Witness ==
    /\ e.kind = "grunt" /\ e.perception.viewAngle = 90 /\ e.isAlive /\ e.target # NULL
    /\ e.yaw = 180 /\ target = Pos(30, 0)
    /\ e.distanceToTarget = 30 /\ ~e.hasLineOfSight

\* ------------------------------------------------------------------------
\* Properties of state management (under SpecState)
\* ------------------------------------------------------------------------
\* C15: setState(s) in state s changes nothing and nothing is notified;
\* setState(s) in another state o leaves state s and previousState o, and
\* what was run is, in this order and each once: the exit hook with o, the
\* enter hook with s, and the observers in registration order, each with
\* (s, o).
C15_SetStateNotifiesInOrder ==
    [][\A s \in AIState :
          SetStateWith(s) =>
              IF e.state = s
              THEN /\ e'.events = <<>>
                   /\ e' = Called(e)
              ELSE /\ e'.state = s /\ e'.previousState = e.state
                   /\ Len(e'.events) = 2 + e.observers
                   /\ e'.events[1] = <<"onExitState", e.state>>
                   /\ e'.events[2] = <<"onEnterState", s>>
                   /\ \A i \in 1..e.observers :
                         e'.events[2 + i] = <<"observer", i, s, e.state>>]_vars

\* A Soldier with MaxObservers observers that has just been moved from
\* COVER to PATROL by setState.
C15_Witness ==
    /\ e.kind = "soldier" /\ e.observers = MaxObservers
    /\ e.state = PATROL /\ e.previousState = COVER
    /\ e.events = <<<<"onExitState", COVER>>, <<"onEnterState", PATROL>>>>
                    \o [i \in 1..MaxObservers |-> <<"observer", i, PATROL, COVER>>]

\* ------------------------------------------------------------------------
\* Properties of the Grunt
\* ------------------------------------------------------------------------
\* C11 (under SpecGruntLife): a Grunt's isEnraged turns true only in a call on a
\* live, non-stunned Grunt whose health was below 30% of maxHealth, and it
\* does so in every update of such a Grunt; once true it stays true; and
\* enterEnraged has run once if the Grunt is enraged and never otherwise.
C11_GruntEnragesOnceBelowThirty ==
    /\ [](e.kind = "grunt" => e.enterEnragedCalls = IF e.isEnraged THEN 1 ELSE 0)
    /\ [][e.kind = "grunt" =>
            /\ e.isEnraged => e'.isEnraged
            /\ (~e.isEnraged /\ e'.isEnraged) =>
                    /\ e.isAlive /\ ~e.isStunned
                    /\ 10 * e.health < 3 * e.maxHealth
            /\ (/\ ~e.isEnraged /\ e.isAlive /\ ~e.isStunned
                /\ 10 * e.health < 3 * e.maxHealth
                /\ Update) => e'.isEnraged]_vars

\* An enraged Grunt whose health is back over 30% of maxHealth.
C11_Witness ==
    /\ e.kind = "grunt" /\ e.isAlive /\ e.isEnraged /\ e.enterEnragedCalls = 1
    /\ 10 * e.health >= 3 * e.maxHealth

\* C12 (under SpecGrunt): the last two scratches a Grunt dealt are more
\* than 1000 ms apart, more than 500 ms if it is enraged; and an update of
\* an enraged Grunt that has its target in sight and in reach, as at its
\* last attack, more than 500 ms after that attack, deals a scratch.
C12_GruntAttackSpacing ==
    /\ [](e.scratchGap # 0 => e.scratchGap > IF e.isEnraged THEN 500 ELSE 1000)
    /\ [][(/\ e.isAlive /\ e.isEnraged /\ e.target # NULL
           /\ e.lastScratchTime # 0 /\ e.lastAttackTime = e.lastScratchTime
           /\ now - e.lastScratchTime > 500
           /\ Update
           /\ e'.hasLineOfSight
           /\ target'.dist <= e.movementConfig.minDistance + 10) =>
                /\ e'.lastScratchTime = now
                /\ e'.scratchGap = now - e.lastScratchTime]_vars

\* An enraged Grunt whose last two scratches are 750 ms apart.
C12_Witness ==
    /\ e.kind = "grunt" /\ e.isAlive /\ e.isEnraged
    /\ e.scratchGap = 750 /\ e.lastScratchTime = now

\* ------------------------------------------------------------------------
\* Properties of the Soldier
\* ------------------------------------------------------------------------
\* C14 (under SpecDamage): a takeDamage call on a live Soldier not in COVER
\* that leaves it alive with health below half its maxHealth leaves it in
\* state COVER, with cover spots and without.
C14_HurtSoldierTakesCover ==
    [][(/\ e.kind = "soldier" /\ e.isAlive /\ e.state # COVER
        /\ TakeDamage
        /\ e'.isAlive /\ 2 * e'.health < e'.maxHealth) => e'.state = COVER]_vars

\* A live Soldier without cover spots, in COVER below half its maxHealth.
C14_Witness ==
    /\ e.kind = "soldier" /\ e.coverSpots = <<>> /\ e.isAlive
    /\ 2 * e.health < e.maxHealth /\ e.state = COVER

\* ------------------------------------------------------------------------
\* Properties of the boss
\* ------------------------------------------------------------------------
\* C13 (under SpecBossLife): a boss of two equal-health phases is in phase 1
\* whenever its health is at most half its maxHealth, leaves phase 0 only
\* in a call after which its health is at most half its maxHealth (firing
\* onPhaseChange once), and its phase index never decreases.
C13_PhaseFollowsHalfHealth ==
    /\ [](e.kind = "boss" =>
            /\ e.currentPhaseIndex \in {0, 1}
            /\ e.onPhaseChangeCalls = e.currentPhaseIndex
            /\ 2 * e.health <= e.maxHealth => e.currentPhaseIndex = 1)
    /\ [][e.kind = "boss" =>
            /\ e'.currentPhaseIndex >= e.currentPhaseIndex
            /\ (e.currentPhaseIndex = 0 /\ e'.currentPhaseIndex = 1) =>
                    2 * e'.health <= e'.maxHealth]_vars

\* A live boss in phase 1 with exactly half its maxHealth.
C13_Witness ==
    /\ e.kind = "boss" /\ e.isAlive /\ Len(e.phases) = 2
    /\ e.phases[1].health = e.phases[2].health
    /\ 2 * e.health = e.maxHealth /\ e.currentPhaseIndex = 1

\* C17 (under SpecBoss): a special attack is active exactly when one is
\* named; performSpecialAttack while one is active changes nothing and
\* fires no onSpecialAttack; and an update of a boss with an active special
\* attack that this update did not end (endSpecialAttack sets the cooldown
\* to 3 s) leaves that attack active and has not run executeBossAI.
C17_OneSpecialAttackAtATime ==
    /\ [](e.isPerformingSpecial <=> e.currentSpecialAttack # NULL)
    /\ [][\A attackName \in SpecialAttacks :
            (e.isPerformingSpecial /\ PerformSpecialAttackWith(attackName)) =>
                /\ e' = Called(e)
                /\ e'.currentSpecialAttack = e.currentSpecialAttack
                /\ e'.onSpecialAttackCalls = 0]_vars
    /\ [][(e.isPerformingSpecial /\ Update /\ e'.specialAttackCooldown # Sec(30)) =>
                /\ e'.bossAICalls = 0
                /\ e'.isPerformingSpecial
                /\ e'.currentSpecialAttack = e.currentSpecialAttack]_vars

\* A live boss in the middle of 'enrage_burst' that was just updated
\* without its AI running, facing a target it would otherwise chase.
C17_Witness ==
    /\ e.kind = "boss" /\ e.isAlive /\ ~e.isStunned
    /\ e.isPerformingSpecial /\ e.currentSpecialAttack = "enrage_burst"
    /\ e.bossAICalls = 0 /\ e.hasLineOfSight /\ e.distanceToTarget = 240
    /\ e.state = IDLE

\* The damage and the run speed of a boss in its phase, enraged or not,
\* each multiplier applied once.
BossDamage(config, phaseIndex, isEnraged) ==
    RMul(RMul(config.damage, config.phases[phaseIndex + 1].damageMultiplier),
         IF isEnraged THEN config.enrageEffects.damageMultiplier ELSE Rat(1, 1))
BossRunSpeed(config, phaseIndex, isEnraged) ==
    RMul(RMul(config.movement.runSpeed,
              RDiv(config.phases[phaseIndex + 1].speedMultiplier,
                   config.phases[1].speedMultiplier)),
         IF isEnraged THEN config.enrageEffects.speedMultiplier ELSE Rat(1, 1))

\* C16 (under SpecBossLife): a boss is enraged whenever its health is at most
\* enrageThreshold of its maxHealth, becomes enraged only in a call after
\* which that is so, and stays enraged; onEnrage has fired once if it is
\* enraged and never otherwise, and its damage and run speed carry the
\* enrage multipliers once if it is enraged and not at all otherwise.
C16_BossEnragesOnce ==
    /\ [](e.kind = "boss" =>
            /\ 10 * e.health <= e.enrageThreshold * e.maxHealth => e.isEnraged
            /\ e.onEnrageCalls = IF e.isEnraged THEN 1 ELSE 0
            /\ e.damage = BossDamage(TRAINER_CONFIG, e.currentPhaseIndex, e.isEnraged)
            /\ e.movementConfig.runSpeed =
                    BossRunSpeed(TRAINER_CONFIG, e.currentPhaseIndex, e.isEnraged))
    /\ [][e.kind = "boss" =>
            /\ e.isEnraged => e'.isEnraged
            /\ (~e.isEnraged /\ e'.isEnraged) =>
                    10 * e'.health <= e'.enrageThreshold * e'.maxHealth]_vars

\* A live enraged boss that has been hit again after it enraged, its health
\* back over the threshold.
C16_Witness ==
    /\ e.kind = "boss" /\ e.isAlive /\ e.isEnraged /\ e.onEnrageCalls = 1
    /\ 10 * e.health > e.enrageThreshold * e.maxHealth
    /\ e.damage = Rat(75, 2)

\* ------------------------------------------------------------------------
\* Properties of update and takeDamage, over every kind of entity
\* ------------------------------------------------------------------------
\* C18: every update of a live entity that is not stunned, of whatever
\* kind, evaluates the entity's behaviour tree exactly once.
C18_EveryUpdateEvaluatesTheTree ==
    [][(e.isAlive /\ ~e.isStunned /\ Update) => e'.treeUpdates = 1]_vars

\* The state the entity was in when the stun that holds it began: the one
\* the host saw at the stun call while it is watching, else the one setState
\* recorded.
PreStunState == IF obs.watch = "stunned" THEN obs.from ELSE e.previousState

\* C19: an update of a live stunned entity, of whatever kind, takes its
\* deltaTime off the stun timer and changes nothing else (position,
\* velocity, health, armor, perception, enrage flag and cooldowns included;
\* no tree and no boss AI is evaluated); when that brings the timer to zero or
\* below it also clears isStunned and puts the entity back in the state it
\* was in before the stun.
C19_StunnedUpdateOnlyCountsDown ==
    [][(e.isAlive /\ e.isStunned /\ Update) =>
          \E deltaTime \in DeltaTimes :
              LET kept == [Called(e) EXCEPT !.stunTime = @ - deltaTime]
              IN  IF kept.stunTime > 0
                  THEN e' = kept
                  ELSE e' = [kept EXCEPT !.isStunned = FALSE,
                                         !.state = PreStunState,
                                         !.previousState = STUNNED]]_vars

\* C20: a takeDamage call on a dead entity, of whatever kind, changes no
\* field of it and fires no callback.
C20_DeadEntityIgnoresDamage ==
    [][(~e.isAlive /\ TakeDamage) => e' = Called(e)]_vars

\* ------------------------------------------------------------------------
\* Properties of the Soldier's tactics
\* ------------------------------------------------------------------------
\* C21: an update of a live Soldier that is not stunned and has its target
\* in sight leaves it in COVER if its health is below half its maxHealth
\* or its suppression timer is over 2 s, and else in CHASE, RETREAT or
\* ATTACK; the update takes deltaTime off a positive suppression timer, and
\* every takeDamage adds 1.0 s to it.
C21_SoldierSeeksCoverWhenHurtOrSuppressed ==
    /\ [][(/\ e.kind = "soldier" /\ e.isAlive /\ ~e.isStunned /\ e.target # NULL
           /\ Update /\ e'.hasLineOfSight) =>
              /\ \E deltaTime \in DeltaTimes :
                    e'.suppressTimer = IF e.suppressTimer > 0
                                       THEN e.suppressTimer - deltaTime
                                       ELSE e.suppressTimer
              /\ IF 2 * e'.health < e'.maxHealth \/ e'.suppressTimer > Sec(20)
                 THEN e'.state = COVER
                 ELSE e'.state \in {CHASE, RETREAT, ATTACK}]_vars
    /\ [][(e.kind = "soldier" /\ SoldierTakeDamageCall) =>
              e'.suppressTimer = e.suppressTimer + Sec(10)]_vars

\* C22: the Soldier's rounds come in bursts of BurstSize: a round is fired
\* at least 150 ms after the round before it, and the first round of a
\* burst (the one that leaves BurstSize - 1 rounds in the burst) at least
\* 500 ms after the last round of the burst before.
C22_SoldierFiresInBursts ==
    (e.kind = "soldier" /\ e.roundGap # 0) =>
        /\ e.roundGap >= 150
        /\ e.burstCount = BurstSize - 1 => e.roundGap >= 500

\* ------------------------------------------------------------------------
\* Properties of the boss's phase system
\* ------------------------------------------------------------------------
\* C23: a takeDamage call advances the boss by at most one phase, and
\* fires onPhaseChange at most once, however many thresholds the hit takes
\* the health over; a call that leaves a live boss short of its last phase
\* with its health at or under the threshold of the phase it was in
\* advances it by exactly one.
C23_OnePhasePerHit ==
    [][BossTakeDamageCall =>
          /\ e'.currentPhaseIndex \in {e.currentPhaseIndex, e.currentPhaseIndex + 1}
          /\ e'.onPhaseChangeCalls =
                 e.onPhaseChangeCalls + (e'.currentPhaseIndex - e.currentPhaseIndex)
          /\ (/\ e.isAlive /\ e.currentPhaseIndex < Len(e.phases) - 1
              /\ PhaseThresholdReached(e', e.phaseHealthThresholds[e.currentPhaseIndex + 1]))
                 => e'.currentPhaseIndex = e.currentPhaseIndex + 1]_vars

\* A live boss of three phases that one hit took from phase 0 over the
\* first two thresholds: it is in phase 1, its health under the second.
C23_Witness ==
    /\ Len(e.phases) = 3 /\ e.isAlive /\ e.currentPhaseIndex = 1
    /\ e.onPhaseChangeCalls = 1
    /\ PhaseThresholdReached(e, e.phaseHealthThresholds[2])

\* C24, as the spec states it: the phase thresholds are non-decreasing in
\* phase order.
C24_ThresholdsNonDecreasing ==
    \A i, j \in 1..Len(e.phaseHealthThresholds) :
        i < j => e.phaseHealthThresholds[i][1] * e.phaseHealthThresholds[j][2]
                    <= e.phaseHealthThresholds[j][1] * e.phaseHealthThresholds[i][2]

\* C24, amended: the threshold of phase i is 1 minus the share of the total
\* health budget that the phases up to i hold; the thresholds are strictly
\* decreasing in phase order, and the last one is 0.
C24_ThresholdsDescendToZero ==
    LET thresholds == e.phaseHealthThresholds
        totalHealth == SumHealth(e.phases, Len(e.phases))
    IN  /\ Len(thresholds) = Len(e.phases)
        /\ \A i \in 1..Len(thresholds) :
              /\ thresholds[i][2] > 0
              /\ thresholds[i][1] * totalHealth
                    = (totalHealth - SumHealth(e.phases, i)) * thresholds[i][2]
        /\ \A i, j \in 1..Len(thresholds) :
              i < j => thresholds[i][1] * thresholds[j][2]
                          > thresholds[j][1] * thresholds[i][2]
        /\ Len(thresholds) > 0 => thresholds[Len(thresholds)][1] = 0

\* A boss of three phases of 100, 300 and 100 points: its thresholds are
\* 4/5, 1/5 and 0.
C24_Witness ==
    /\ Len(e.phases) = 3
    /\ e.phases[1].health = Pt(100) /\ e.phases[2].health = Pt(300)
    /\ e.phases[3].health = Pt(100)
    /\ e.phaseHealthThresholds = <<Rat(4, 5), Rat(1, 5), Rat(0, 1)>>

\* What the phase hooks and onPhaseChange recorded in the call just made.
PhaseEvents(x) ==
    SelectSeq(x.events, LAMBDA event : event[1] \in {"onExit", "onEnter", "onPhaseChange"})

\* C25: a takeDamage call in which the phase index changes raises it by 1
\* and runs, once each and in this order, the old phase's exit hook (which
\* finds the old damage and run speed), the new phase's enter hook (which
\* finds them rescaled by the new multipliers over the old) and
\* onPhaseChange with the new index and name; any other call runs none of
\* them, and the index of a boss in its last phase never changes.
C25_PhaseAdvanceInOrder ==
    [][BossTakeDamageCall =>
          IF e'.currentPhaseIndex # e.currentPhaseIndex
          THEN LET oldPhase == e.phases[e.currentPhaseIndex + 1]
                   newPhase == e.phases[e.currentPhaseIndex + 2]
               IN  /\ e.currentPhaseIndex < Len(e.phases) - 1
                   /\ e'.currentPhaseIndex = e.currentPhaseIndex + 1
                   /\ PhaseEvents(e') =
                        << <<"onExit", oldPhase.name, e.damage, e.movementConfig.runSpeed>>,
                           <<"onEnter", newPhase.name,
                             RMul(e.damage, RDiv(newPhase.damageMultiplier,
                                                 oldPhase.damageMultiplier)),
                             RMul(e.movementConfig.runSpeed,
                                  RDiv(newPhase.speedMultiplier,
                                       oldPhase.speedMultiplier))>>,
                           <<"onPhaseChange", e.currentPhaseIndex + 1, newPhase.name>> >>
          ELSE PhaseEvents(e') = <<>>]_vars

\* A boss whose last call took it from its second phase to its third.
C25_Witness ==
    /\ Len(e.phases) = 3 /\ e.currentPhaseIndex = 2
    /\ Len(PhaseEvents(e)) = 3
    /\ PhaseEvents(e)[3] = <<"onPhaseChange", 2, <<"phase", 3>>>>

\* C26: while the boss is not enraged, its damage is the configured damage
\* times the damageMultiplier of the phase it is in, and its run speed the
\* configured run speed times that phase's speedMultiplier.
C26_StatsFollowPhaseMultipliers ==
    LET phase == e.phases[e.currentPhaseIndex + 1]
    IN  (e.phases # <<>> /\ ~e.isEnraged) =>
            /\ e.damage = RMul(TRAINER_CONFIG.damage, phase.damageMultiplier)
            /\ e.movementConfig.runSpeed =
                    RMul(TRAINER_CONFIG.movement.runSpeed, phase.speedMultiplier)

C28_SpecialAttackEnds ==
    e.isPerformingSpecial ~> ~e.isPerformingSpecial

\* C29: a takeDamage call that takes the Trainer from phase 0 to phase 1
\* leaves demonstrationComplete false and currentTipIndex 0.
C29_PhaseOneResetsTeaching ==
    [][(e.currentPhaseIndex = 0 /\ TakeDamage /\ e'.currentPhaseIndex = 1) =>
          ~e'.demonstrationComplete /\ e'.currentTipIndex = 0]_vars

\* C30: the Trainer's combo counter is never over maxCombos, and it is 0
\* again after an update in which the combo window runs out without a new
\* combo attack.
C30_ComboCountWithinMaxCombos ==
    /\ [](e.comboCount <= MaxCombos)
    /\ [][(e.isAlive /\ e.comboWindow > 0 /\ Update /\ e'.comboWindow <= 0)
             => e'.comboCount = 0]_vars

\* ------------------------------------------------------------------------
\* Properties of timing, perception and errors
\* ------------------------------------------------------------------------
\* What Date.now() can return in a call made now or later.
ClocksFrom(from) == {from + k * ClockStep : k \in 0..MaxClock}

\* Whether the call that took x to y performed an attack: an attack, and
\* nothing else, moves lastAttackTime.
Attacked(x, y) == y.lastAttackTime # x.lastAttackTime

\* C31: whether an update attacks does not depend on the real time that has
\* passed since the call before it: in every state a run can reach, the
\* next update(deltaTime) with a given position and given draws attacks
\* whatever the wall clock reads, or does not attack whatever it reads.
C31_AttacksIndependentOfRealTime ==
    \A deltaTime \in DeltaTimes, rnd \in DrawsFor(e),
       p \in PositionsRead(e, ReadsTarget(e) /\ ~e.isStunned),
       clock \in ClocksFrom(now) :
        Attacked(e, UpdateOf(Called(e), p, deltaTime, [rnd EXCEPT !.now = clock]))
            = Attacked(e, UpdateOf(Called(e), p, deltaTime, rnd))

\* C32: a perception refresh (updatePerception called on its own, or by the
\* update of a live entity that is not stunned) that finds the target in
\* line of sight leaves the last-known position at the target's position
\* and the last-seen time at the clock's reading; one that does not find it
\* in line of sight leaves both as they were.
C32_PerceptionMemory ==
    [][((UpdatePerceptionCall \/ (e.isAlive /\ ~e.isStunned /\ Update))
            /\ e'.target # NULL)
        => IF e'.hasLineOfSight
           THEN /\ e'.lastKnownTargetPosition = target'
                /\ e'.lastSeenTime = now
           ELSE /\ e'.lastKnownTargetPosition = e.lastKnownTargetPosition
                /\ e'.lastSeenTime = e.lastSeenTime]_vars

\* The entity saw its target at an earlier time at another place than
\* where it has just looked for it in vain.
C32_Witness ==
    /\ e.target # NULL /\ ~e.hasLineOfSight
    /\ e.distanceToTarget = target.dist
    /\ e.lastKnownTargetPosition # target
    /\ e.lastKnownTargetPosition.dist > 0
    /\ e.lastSeenTime > Epoch /\ e.lastSeenTime < now

\* C33: no update raises an error; and the update of a live Soldier that is
\* not stunned, has a patrol route and finds no target in line of sight
\* leaves the Soldier in PATROL.
C33_UpdateRaisesNoError ==
    [][Update =>
          /\ ~e'.raised
          /\ (/\ e.kind = "soldier" /\ e.isAlive /\ ~e.isStunned
              /\ Len(e.patrolPoints) > 0 /\ ~e'.hasLineOfSight)
             => e'.state = PATROL]_vars

\* ------------------------------------------------------------------------
\* Properties of a boss's defeat and construction
\* ------------------------------------------------------------------------
\* C34: no call that finds the boss defeated or defeats it (takeDamage, stun
\* or update; die() runs inside takeDamage before the phase and enrage
\* checks) fires onPhaseChange or onEnrage or changes the boss's phase
\* index, enrage flag, damage or run speed.
C34_DefeatedBossIsInert ==
    [][(e.kind = "boss" /\ ~e'.isAlive) =>
          /\ e'.onPhaseChangeCalls = e.onPhaseChangeCalls
          /\ e'.onEnrageCalls = e.onEnrageCalls
          /\ e'.currentPhaseIndex = e.currentPhaseIndex
          /\ e'.isEnraged = e.isEnraged
          /\ e'.damage = e.damage
          /\ e'.movementConfig.runSpeed = e.movementConfig.runSpeed]_vars

\* C35: a boss's maxHealth is the sum of the health budgets of its phases
\* (its health at construction, never exceeded but by healing), and a call
\* takes it from phase k to phase k+1 only when it has lost the budgets of
\* the phases 0..k.
C35_MaxHealthIsSumOfPhases ==
    /\ [](e.kind = "boss" => e.maxHealth = SumHealth(e.phases, Len(e.phases)))
    /\ [][(e.kind = "boss" /\ e'.currentPhaseIndex = e.currentPhaseIndex + 1) =>
            SumHealth(e.phases, Len(e.phases)) - e'.health
                >= SumHealth(e.phases, e.currentPhaseIndex + 1)]_vars

\* ------------------------------------------------------------------------
\* Properties of the observers' callbacks
\* ------------------------------------------------------------------------
\* C36: whatever takeDamage calls the on-damage observer makes from inside
\* its callback, the on-death callback has been invoked once if the entity
\* is dead and never otherwise.
C36_DeathCallbacksOnceWhenReentered ==
    e.onDeathCalls = IF e.isAlive THEN 0 ELSE 1

\* C37: every health an on-damage, on-death or on-state-change observer
\* reads in its callback is within 0..maxHealth.
C37_ObserversReadHealthInBounds ==
    \A h \in e.healthRead : 0 <= h /\ h <= e.maxHealth

\* How often the first state-change observer was notified in the last call.
Notifications ==
    Cardinality({k \in DOMAIN e.events :
                    e.events[k][1] = "observer" /\ e.events[k][2] = 1})

\* C38: no update notifies a state-change observer more than once: after
\* an update of an entity with an observer, the observer has been notified
\* once at most.
C38_OneStateChangePerUpdate ==
    [][(e.observers > 0 /\ Update) => Notifications' <= 1]_vars

\* ------------------------------------------------------------------------
\* Properties of the default enemy tree and of repeated stuns
\* ------------------------------------------------------------------------
\* The entity has its target in line of sight and its health is not low.
TargetInSightAndHealthy == e.hasLineOfSight /\ ~CreateBTContext(e).isHealthLow

\* C39: a base entity that from some time on has its target in line of
\* sight and at least 30% of its health executes the attack leaf at some
\* time (onAttack performs its first attack, which sets lastAttackTime):
\* either it is without line of sight again and again, or it attacks.
C39_AttackLeafIsReached ==
    \/ []<>~TargetInSightAndHealthy
    \/ <>(e.lastAttackTime # 0)

\* C40: stun(d2) on a live entity that is stunned leaves the state to
\* restore (previousState) as it was, the entity in STUNNED and the stun
\* timer at d2; and the update in which the stun of a live entity elapses
\* takes the entity to that state, which is not STUNNED.
C40_RestunKeepsStateToRestore ==
    /\ [][\A duration \in StunDurations :
            (e.isAlive /\ e.isStunned /\ StunCall /\ e' = Stun(Called(e), duration)) =>
                /\ e'.previousState = e.previousState
                /\ e'.state = STUNNED /\ e'.isStunned
                /\ e'.stunTime = duration]_vars
    /\ [][(e.isAlive /\ e.isStunned /\ Update /\ ~e'.isStunned) =>
            e'.state = e.previousState /\ e'.state # STUNNED]_vars

====
